---- MODULE Spec2Model ----
(***************************************************************************)
(* Tokamak zk-EVM Synthesizer: the dual (concrete + symbolic) interpreter, *)
(* the placement/buffer bookkeeping of the StateManager, the DataLoader    *)
(* cache and the MemoryPt write history with its aliasing resolution.      *)
(*                                                                         *)
(* 256-bit EVM words are kept at their full width: a word is the sequence  *)
(* of its 32 bytes, most significant byte first (the order in which MSTORE *)
(* lays a word out in memory).                                             *)
(***************************************************************************)
EXTENDS Integers, Sequences, FiniteSets, TLC

(***************************************************************************)
(* Bounds of the exploration                                               *)
(***************************************************************************)
\* length up to which every program is run (interpreter specification)
MaxCodeLen == 3
\* MemoryPt.write calls of one run (memory specification)
MaxWrites == 3
\* reads (MLOAD symbolic part) of one run (memory specification)
MaxReads == 1
\* direct calls of the Synthesizer facade (facade specification)
MaxCalls == 3

(***************************************************************************)
(* Program constants                                                       *)
(***************************************************************************)
WORD_BYTES == 32
PUB_IN_PLACEMENT_INDEX == 0
PUB_OUT_PLACEMENT_INDEX == 1
PRV_IN_PLACEMENT_INDEX == 2
PRV_OUT_PLACEMENT_INDEX == 3
INITIAL_PLACEMENT_INDEX == 4
\* DataPt.source of a symbol that no placement produced
\* ('literal' selector, auxiliary input)
LITERAL == -1
AUXIN == -2
\* DataPt.wireIndex is optional: absent
NO_WIRE == -1

(***************************************************************************)
(* 256-bit words as 32 bytes, big-endian                                   *)
(***************************************************************************)
Byte == 0..255
WordIdx == 1..WORD_BYTES

\* the element of a singleton; in The({F(x) : x \in {e}}) the value of e
\* is computed once for all the uses of x
The(S) == CHOOSE v \in S : TRUE

ZeroWord == [i \in WordIdx |-> 0]
OnesWord == [i \in WordIdx |-> 255]

\* bigint of a small number (n < 2^31): only the low 4 bytes can be set
ToWord(n) ==
    [i \in WordIdx |->
        IF i < WORD_BYTES - 3 THEN 0
        ELSE (n \div (256 ^ (WORD_BYTES - i))) % 256]

\* the word with the bit 1 << k set (selector bit masks), k < 256
BitWord(k) ==
    [i \in WordIdx |->
        IF i = WORD_BYTES - (k \div 8) THEN 2 ^ (k % 8) ELSE 0]

\* Number(x) of a word that fits into 31 bits
RECURSIVE ToNatFrom(_, _)
ToNatFrom(w, i) ==
    IF i > WORD_BYTES THEN 0
    ELSE w[i] * (256 ^ (WORD_BYTES - i)) + ToNatFrom(w, i + 1)

IsSmall(w) ==
    /\ \A i \in 1..(WORD_BYTES - 4) : w[i] = 0
    /\ w[WORD_BYTES - 3] < 128

ToNat(w) == ToNatFrom(w, WORD_BYTES - 3)

\* byte k of w, 0 outside the word
ByteAt(w, k) == IF k \in WordIdx THEN w[k] ELSE 0

\* carry into byte i of a + b from the less significant bytes
RECURSIVE CarryInto(_, _, _)
CarryInto(a, b, i) ==
    IF i = WORD_BYTES THEN 0
    ELSE (a[i + 1] + b[i + 1] + CarryInto(a, b, i + 1)) \div 256

\* mod(a + b, TWO_POW256)
AddWord(a, b) ==
    [i \in WordIdx |-> (a[i] + b[i] + CarryInto(a, b, i)) % 256]

RECURSIVE ByteAnd(_, _)
ByteAnd(x, y) ==
    IF x = 0 \/ y = 0 THEN 0
    ELSE 2 * ByteAnd(x \div 2, y \div 2)
         + (IF x % 2 = 1 /\ y % 2 = 1 THEN 1 ELSE 0)

RECURSIVE ByteOr(_, _)
ByteOr(x, y) ==
    IF x = 0 THEN y
    ELSE IF y = 0 THEN x
    ELSE 2 * ByteOr(x \div 2, y \div 2)
         + (IF x % 2 = 1 \/ y % 2 = 1 THEN 1 ELSE 0)

\* a & b
AndWord(a, b) == [i \in WordIdx |-> ByteAnd(a[i], b[i])]
\* a | b
OrWord(a, b) == [i \in WordIdx |-> ByteOr(a[i], b[i])]

\* w >> bits (logical), bits >= 0
ShrWord(w, bits) ==
    LET q == bits \div 8
        r == bits % 8
    IN [i \in WordIdx |->
          (ByteAt(w, i - q) \div (2 ^ r))
          + ((ByteAt(w, i - q - 1) * (2 ^ (8 - r))) % 256)]

\* (w << bits) mod 2^256, bits >= 0
ShlWord(w, bits) ==
    LET q == bits \div 8
        r == bits % 8
    IN [i \in WordIdx |->
          ((ByteAt(w, i + q) * (2 ^ r)) % 256)
          + (ByteAt(w, i + q + 1) \div (2 ^ (8 - r)))]

\* binary long division, bits j..7 of one byte of the dividend a: the
\* quotient byte so far and the running remainder r (r < b)
RECURSIVE DivBits(_, _, _, _, _, _)
DivBits(a, b, byte, j, qb, r) ==
    IF j = 8 THEN [qb |-> qb, r |-> r]
    ELSE LET \* 2 * r + the next bit of a, mod 2^256
             r2 == SubSeq([i \in WordIdx |->
                            (2 * r[i] + (IF i = WORD_BYTES
                                         THEN (a[byte] \div (2 ^ (7 - j))) % 2
                                         ELSE r[i + 1] \div 128)) % 256],
                          1, WORD_BYTES)
             \* the bytes from i on of r2 are below those of b
             less(i) == \E k \in i..WORD_BYTES :
                           /\ r2[k] < b[k]
                           /\ \A m \in i..(k - 1) : r2[m] = b[m]
         IN IF r[1] >= 128 \/ ~less(1)
            THEN DivBits(a, b, byte, j + 1, 2 * qb + 1,
                         SubSeq([i \in WordIdx |->
                                    (256 + r2[i] - b[i]
                                     - (IF less(i + 1) THEN 1 ELSE 0)) % 256],
                                1, WORD_BYTES))
            ELSE DivBits(a, b, byte, j + 1, 2 * qb, r2)

\* the bytes of the dividend from the most significant one
RECURSIVE LongDiv(_, _, _, _, _)
LongDiv(a, b, byte, q, r) ==
    IF byte > WORD_BYTES THEN [q |-> q, r |-> r]
    ELSE LET qr == DivBits(a, b, byte, 0, 0, r)
         IN LongDiv(a, b, byte + 1, Append(q, qr.qb), qr.r)

\* a / b and a % b on bigints, b # 0: native integers when both operands
\* fit into 31 bits, long division otherwise
DivModWord(a, b) ==
    IF IsSmall(a) /\ IsSmall(b)
    THEN [q |-> ToWord(ToNat(a) \div ToNat(b)),
          r |-> ToWord(ToNat(a) % ToNat(b))]
    ELSE LongDiv(a, b, 1, << >>, ZeroWord)

\* the sum of the byte products of a and b in column c, terms lo..hi
\* (column 0 is the least significant byte)
RECURSIVE MulColumn(_, _, _, _, _)
MulColumn(a, b, c, lo, hi) ==
    IF lo = hi THEN a[WORD_BYTES - lo] * b[WORD_BYTES - (c - lo)]
    ELSE MulColumn(a, b, c, lo, (lo + hi) \div 2)
         + MulColumn(a, b, c, (lo + hi) \div 2 + 1, hi)

\* schoolbook product, the bytes of the columns lo..hi (most significant
\* first) and the carry out of them, given the carry into column lo
RECURSIVE MulBytes(_, _, _, _, _)
MulBytes(a, b, lo, hi, carry) ==
    IF lo = hi
    THEN The({[bytes |-> <<s % 256>>, carry |-> s \div 256] :
                s \in {carry + MulColumn(a, b, lo, 0, lo)}})
    ELSE The({The({[bytes |-> high.bytes \o low.bytes,
                    carry |-> high.carry] :
                     high \in {MulBytes(a, b, (lo + hi) \div 2 + 1, hi,
                                        low.carry)}}) :
                low \in {MulBytes(a, b, lo, (lo + hi) \div 2, carry)}})

\* (a * b) % TWO_POW256
MulWord(a, b) ==
    IF IsSmall(a) /\ IsSmall(b) /\ ToNat(a) < 2 ^ 15 /\ ToNat(b) < 2 ^ 15
    THEN ToWord(ToNat(a) * ToNat(b))
    ELSE MulBytes(a, b, 0, WORD_BYTES - 1, 0).bytes

\* bit j of a word, bit 0 the least significant
Bit(w, j) == (w[WORD_BYTES - (j \div 8)] \div (2 ^ (j % 8))) % 2

\* Math.floor(Math.log2(n)) + 1 for n > 0: the number of bits up to the
\* highest one set
BitLength(w) ==
    1 + (CHOOSE j \in 0..(8 * WORD_BYTES - 1) :
            /\ Bit(w, j) = 1
            /\ \A m \in (j + 1)..(8 * WORD_BYTES - 1) : Bit(w, m) = 0)

\* the t highest bits of w, from its highest set bit down, are all set
LeadingOnes(w, t) ==
    /\ BitLength(w) >= t
    /\ \A j \in (BitLength(w) - t)..(BitLength(w) - 1) : Bit(w, j) = 1

\* Math.floor(Math.log2(bNum)) + 1 for the Number bNum of a word w > 0, the
\* values an engine can give.  A Number keeps 53 significant bits and is
\* rounded to the nearest, so a word whose 54 highest bits are set becomes
\* the next power of two and the logarithm is its bit length n; where the
\* logarithm of the Number is less than one unit in the last place under
\* n (48 bits set for n <= 64, a bit less for every doubling of n) the
\* engine's approximation decides between n - 1 and n; everywhere else
\* the result is the bit length
Log2BitLengths(w) ==
    IF LeadingOnes(w, 54) THEN {BitLength(w) + 1}
    ELSE IF LeadingOnes(w, IF BitLength(w) <= 64 THEN 48
                           ELSE IF BitLength(w) <= 128 THEN 47 ELSE 46)
    THEN {BitLength(w), BitLength(w) + 1}
    ELSE {BitLength(w)}

\* base ** exponent % TWO_POW256 by the bits hi down to lo of the
\* exponent, acc the power for the bits above hi; the range is halved to
\* keep the evaluation shallow
RECURSIVE PowWord(_, _, _, _, _)
PowWord(a, e, hi, lo, acc) ==
    IF hi < lo THEN acc
    ELSE IF hi = lo
    THEN The({IF Bit(e, hi) = 1 THEN MulWord(sq, a) ELSE sq :
                sq \in {MulWord(acc, acc)}})
    ELSE The({PowWord(a, e, (hi + lo) \div 2, lo, upper) :
                upper \in {PowWord(a, e, hi, (hi + lo) \div 2 + 1, acc)}})

(***************************************************************************)
(* DataPt, placements, StateManager                                        *)
(***************************************************************************)
\* DataPointFactory.create: returns its parameters plus valueHex; valueHex
\* is a function of value alone and is left out of the record.
DataPointFactory_create(source, wireIndex, value, sourceSize) ==
    [source |-> source, wireIndex |-> wireIndex,
     value |-> value, sourceSize |-> sourceSize]

PlacementEntry(name, usage, inPts, outPts) ==
    [name |-> name, usage |-> usage, inPts |-> inPts, outPts |-> outPts]

BufferIds == {PUB_IN_PLACEMENT_INDEX, PUB_OUT_PLACEMENT_INDEX,
              PRV_IN_PLACEMENT_INDEX, PRV_OUT_PLACEMENT_INDEX}

BufferName(id) ==
    CASE id = PUB_IN_PLACEMENT_INDEX -> "PUB_IN"
      [] id = PUB_OUT_PLACEMENT_INDEX -> "PUB_OUT"
      [] id = PRV_IN_PLACEMENT_INDEX -> "PRV_IN"
      [] id = PRV_OUT_PLACEMENT_INDEX -> "PRV_OUT"

\* StateManager._initializePlacements: the four empty buffer placements
initializePlacements ==
    [id \in BufferIds |->
        PlacementEntry(BufferName(id), BufferName(id), <<>>, <<>>)]

\* new StateManager()
StateManager_new ==
    [placements |-> initializePlacements,
     placementIndex |-> INITIAL_PLACEMENT_INDEX,
     envInf |-> << >>,
     storagePt |-> << >>]

\* Map.set(k, v)
MapSet(m, k, v) == (k :> v) @@ m

\* return this.placementIndex++
getNextPlacementIndex_NoIncrement(st) ==
    [state |-> st, ret |-> st.placementIndex]

getNextPlacementIndex(st) ==
    [state |-> [st EXCEPT !.placementIndex = @ + 1],
     ret |-> st.placementIndex]

\* Synthesizer.place: this.state.placements.set(
\*     this.state.getNextPlacementIndex(), placement)
place(st, name, inPts, outPts, usage) ==
    LET r == getNextPlacementIndex(st)
    IN [r.state EXCEPT !.placements =
            MapSet(@, r.ret, PlacementEntry(name, usage, inPts, outPts))]

(***************************************************************************)
(* OperationHandler                                                        *)
(***************************************************************************)
ArithmeticOperator == {"ADD", "DIV", "MOD", "AND", "OR", "SHL", "SHR"}

\* SUBCIRCUIT_MAPPING[name][0]
SubcircuitName(name) ==
    CASE name = "ADD" -> "ALU1"
      [] name = "DIV" -> "ALU2"
      [] name = "MOD" -> "ALU2"
      [] name = "AND" -> "AND"
      [] name = "OR" -> "OR"
      [] name = "SHL" -> "ALU3"
      [] name = "SHR" -> "ALU3"
      [] name = "SubEXP" -> "ALU1"
      [] name = "DecToBit" -> "DecToBit"

\* SUBCIRCUIT_MAPPING[name][1]; the table lists no selector bit for the
\* AND, OR and DecToBit subcircuits
Selector(name) ==
    CASE name = "ADD" -> BitWord(1)
      [] name = "DIV" -> BitWord(4)
      [] name = "MOD" -> BitWord(6)
      [] name = "AND" -> ZeroWord
      [] name = "OR" -> ZeroWord
      [] name = "SHL" -> BitWord(27)
      [] name = "SHR" -> BitWord(28)
      [] name = "SubEXP" -> BitWord(10)
      [] name = "DecToBit" -> ZeroWord

\* the result of the operation on the values of the input symbols, with
\* the integer semantics of the concrete handler; shifts take
\* [shift, value] and here only shifts below 2^31 bits occur
computedValue(name, inPts) ==
    CASE name = "ADD" -> AddWord(inPts[1].value, inPts[2].value)
      [] name \in {"DIV", "MOD"} ->
            IF inPts[2].value = ZeroWord THEN ZeroWord
            ELSE LET qr == DivModWord(inPts[1].value, inPts[2].value)
                 IN IF name = "DIV" THEN qr.q ELSE qr.r
      [] name = "AND" -> AndWord(inPts[1].value, inPts[2].value)
      [] name = "OR" -> OrWord(inPts[1].value, inPts[2].value)
      [] name = "SHL" ->
            IF IsSmall(inPts[1].value) /\ ToNat(inPts[1].value) < 256
            THEN ShlWord(inPts[2].value, ToNat(inPts[1].value))
            ELSE ZeroWord
      [] name = "SHR" ->
            IF IsSmall(inPts[1].value) /\ ToNat(inPts[1].value) < 256
            THEN ShrWord(inPts[2].value, ToNat(inPts[1].value))
            ELSE ZeroWord

\* OperationHandler.placeArith
placeArith_NoSelector(st, name, inPts) ==
    LET r == getNextPlacementIndex(st)
        outPt == DataPointFactory_create(r.ret, 0,
                                         computedValue(name, inPts), WORD_BYTES)
    IN [state |-> place(r.state, SubcircuitName(name), inPts, <<outPt>>, name),
        ret |-> <<outPt>>]

placeArith(st, name, inPts) ==
    LET selectorPt ==
            DataPointFactory_create(LITERAL, NO_WIRE, Selector(name),
                                    WORD_BYTES)
        r == getNextPlacementIndex(st)
        outPt == DataPointFactory_create(r.ret, 0,
                                         computedValue(name, inPts),
                                         WORD_BYTES)
    IN [state |-> place(r.state, SubcircuitName(name),
                        <<selectorPt>> \o inPts, <<outPt>>, name),
        ret |-> <<outPt>>]

\* OperationHandler.placeArith for a subcircuit with several outputs: one
\* output symbol per value, on the wires 0, 1, ... of the new placement
placeArithOuts(st, name, inPts, values, size) ==
    LET selectorPt ==
            DataPointFactory_create(LITERAL, NO_WIRE, Selector(name),
                                    WORD_BYTES)
        r == getNextPlacementIndex(st)
        outPts == [j \in 1..Len(values) |->
                      DataPointFactory_create(r.ret, j - 1, values[j], size)]
    IN [state |-> place(r.state, SubcircuitName(name),
                        <<selectorPt>> \o inPts, outPts, name),
        ret |-> outPts]

\* a variant that leaves the array in the order it came in
Reverse_Kept(s) == s

\* Array.prototype.reverse
Reverse(s) == [i \in 1..Len(s) |-> s[Len(s) - i + 1]]

\* the bits of the exponent as DecToBit puts them out, the most
\* significant first
DecToBitValues(w) ==
    [j \in 1..(8 * WORD_BYTES) |-> ToWord(Bit(w, 8 * WORD_BYTES - j))]

\* what a SubEXP placement puts out for the cumulative result c, the
\* power a and the bit: c * a ** bit and a * a
SubEXPValues(c, a, bit) ==
    <<IF bit = ZeroWord THEN c ELSE MulWord(c, a), MulWord(a, a)>>

\* for (let i = lo; i <= hi; i++): SubEXP on [chPts[i - 1], ahPts[i - 1],
\* bitifyOutPts[i - 1]], the outputs are the next cumulative result and
\* the next power; chPt and ahPt are the last of chPts and ahPts, and the
\* range is halved to keep the evaluation shallow
RECURSIVE subExpLoop(_, _, _, _, _, _)
subExpLoop(st, chPt, ahPt, bitifyOutPts, lo, hi) ==
    IF lo > hi THEN [state |-> st, chPt |-> chPt, ahPt |-> ahPt]
    ELSE IF lo = hi
    THEN The({[state |-> r.state, chPt |-> r.ret[1], ahPt |-> r.ret[2]] :
                r \in {placeArithOuts(st, "SubEXP",
                                      <<chPt, ahPt, bitifyOutPts[lo]>>,
                                      values, WORD_BYTES) :
                          values \in {SubEXPValues(chPt.value, ahPt.value,
                                                   bitifyOutPts[lo].value)}}})
    ELSE The({subExpLoop(m.state, m.chPt, m.ahPt, bitifyOutPts,
                         (lo + hi) \div 2 + 1, hi) :
                m \in {subExpLoop(st, chPt, ahPt, bitifyOutPts, lo,
                                  (lo + hi) \div 2)}})

\* placeExp: DecToBit on the exponent, then k SubEXP placements, k the
\* outcome of Math.floor(Math.log2(bNum)) + 1 (no iteration for the
\* exponent 0, whose logarithm is -Infinity); chPts starts with the
\* constant 1 and ahPts with the base
placeExp(st, aPt, bPt, k) ==
    The({The({[state |-> loop.state, ret |-> loop.chPt] :
                loop \in {subExpLoop(dec.state,
                                     DataPointFactory_create(
                                         AUXIN, NO_WIRE, ToWord(1),
                                         WORD_BYTES),
                                     aPt, bitifyOutPts, 1, k) :
                            bitifyOutPts \in {Reverse(dec.ret)}}}) :
           dec \in {placeArithOuts(st, "DecToBit", <<bPt>>, values, 1) :
                      values \in {DecToBitValues(bPt.value)}}})

(***************************************************************************)
(* BufferManager, DataLoader                                               *)
(***************************************************************************)
\* the next free wire index of a buffer placement
nextIndex(st, placementId) == Len(st.placements[placementId].outPts)

\* BufferManager.addWireToInBuffer
addWireToInBuffer_FirstIndex(st, inPt, placementId) ==
    LET outPt == DataPointFactory_create(placementId, 0, inPt.value, WORD_BYTES)
    IN [state |-> [st EXCEPT !.placements[placementId].inPts = Append(@, inPt),
                             !.placements[placementId].outPts = Append(@, outPt)],
        ret |-> outPt]

addWireToInBuffer(st, inPt, placementId) ==
    LET outPt == DataPointFactory_create(placementId,
                                         nextIndex(st, placementId),
                                         inPt.value, WORD_BYTES)
    IN [state |->
            [st EXCEPT !.placements[placementId].inPts = Append(@, inPt),
                       !.placements[placementId].outPts = Append(@, outPt)],
        ret |-> outPt]

\* BufferManager.addWireToOutBuffer
\* a variant that draws a placement id for the wire
addWireToOutBuffer_TakesId(st, inPt, outPt, placementId) ==
    [st EXCEPT !.placements[placementId].inPts = Append(@, inPt),
               !.placements[placementId].outPts = Append(@, outPt),
               !.placementIndex = @ + 1]

addWireToOutBuffer(st, inPt, outPt, placementId) ==
    [st EXCEPT !.placements[placementId].inPts = Append(@, inPt),
               !.placements[placementId].outPts = Append(@, outPt)]

\* `${codeAddress}_${key.toString()}`: the address contains no '_' and the
\* decimal rendering of a bigint is injective, so the string identifies
\* the pair
keyString(codeAddress, key) == <<codeAddress, key>>

\* DataLoader.loadStorage
loadStorage_NoCache(st, codeAddress, key, value) ==
    LET inPt == DataPointFactory_create(LITERAL, NO_WIRE, value, WORD_BYTES)
        r == addWireToInBuffer(st, inPt, PRV_IN_PLACEMENT_INDEX)
    IN [state |-> [r.state EXCEPT !.storagePt =
                       MapSet(@, keyString(codeAddress, key), r.ret)],
        ret |-> r.ret]

\* a variant that takes the wire from the public input buffer
loadStorage_PubIn(st, codeAddress, key, value) ==
    IF keyString(codeAddress, key) \in DOMAIN st.storagePt
    THEN [state |-> st, ret |-> st.storagePt[keyString(codeAddress, key)]]
    ELSE LET inPt == DataPointFactory_create(LITERAL, NO_WIRE, value,
                                             WORD_BYTES)
             r == addWireToInBuffer(st, inPt, PUB_IN_PLACEMENT_INDEX)
         IN [state |-> [r.state EXCEPT !.storagePt =
                            MapSet(@, keyString(codeAddress, key), r.ret)],
             ret |-> r.ret]

loadStorage(st, codeAddress, key, value) ==
    IF keyString(codeAddress, key) \in DOMAIN st.storagePt
    THEN [state |-> st, ret |-> st.storagePt[keyString(codeAddress, key)]]
    ELSE LET inPt == DataPointFactory_create(LITERAL, NO_WIRE, value,
                                             WORD_BYTES)
             r == addWireToInBuffer(st, inPt, PRV_IN_PLACEMENT_INDEX)
         IN [state |-> [r.state EXCEPT !.storagePt =
                            MapSet(@, keyString(codeAddress, key), r.ret)],
             ret |-> r.ret]

\* the kinds of external data kept private: they come from the state trie
PrivateKinds == {"Storage", "Balance", "Nonce"}

\* DataLoader.loadEnvInf / loadBlkInf, and the loaders of balances and
\* nonces: a cached symbol is returned as it is; otherwise the value gets
\* a wire in the input buffer of its kind and the symbol is cached under
\* (address, kind, key)
loadEnvInf(st, codeAddress, name, value, key) ==
    IF <<codeAddress, name, key>> \in DOMAIN st.envInf
    THEN [state |-> st, ret |-> st.envInf[<<codeAddress, name, key>>]]
    ELSE LET inPt == DataPointFactory_create(LITERAL, NO_WIRE, value,
                                             WORD_BYTES)
             r == addWireToInBuffer(st, inPt,
                                    IF name \in PrivateKinds
                                    THEN PRV_IN_PLACEMENT_INDEX
                                    ELSE PUB_IN_PLACEMENT_INDEX)
         IN [state |-> [r.state EXCEPT !.envInf =
                            MapSet(@, <<codeAddress, name, key>>, r.ret)],
             ret |-> r.ret]

\* Synthesizer.storePrvOut / DataLoader.storeStorage: the symbol and its
\* observed value go to the PRV_OUT buffer; nothing is cached
storePrvOut(st, codeAddress, inPt, key) ==
    LET outPt == DataPointFactory_create(
                    PRV_OUT_PLACEMENT_INDEX,
                    nextIndex(st, PRV_OUT_PLACEMENT_INDEX),
                    inPt.value, WORD_BYTES)
    IN addWireToOutBuffer(st, inPt, outPt, PRV_OUT_PLACEMENT_INDEX)

\* Synthesizer.loadAuxin: a hardcoded constant becomes a DataPt without
\* going through a buffer placement
loadAuxin(value, size) ==
    DataPointFactory_create(AUXIN, NO_WIRE, value, size)

(***************************************************************************)
(* Memory (concrete, flat) and MemoryPt (symbolic, write history)          *)
(***************************************************************************)
\* byte offsets used by the direct memory calls
MemOffsets == {0, 16, 35}

\* new Memory(): the bytes written so far; unwritten memory reads as zero
Memory_new == << >>

\* Memory.write(offset, 32, bigIntToBytes(value, 32))
Memory_write(mem, offset, value) ==
    [a \in (DOMAIN mem) \cup (offset..(offset + WORD_BYTES - 1)) |->
        IF a >= offset /\ a < offset + WORD_BYTES
        THEN value[a - offset + 1] ELSE mem[a]]

\* bytesToBigInt(Memory.read(offset, 32))
Memory_read(mem, offset) ==
    [i \in WordIdx |->
        IF offset + i - 1 \in DOMAIN mem THEN mem[offset + i - 1] ELSE 0]

\* new MemoryPt()
MemoryPt_new == [storePt |-> << >>, timeStamp |-> 0]

MemoryPtEntry(memOffset, containerSize, dataPt) ==
    [memOffset |-> memOffset, containerSize |-> containerSize,
     dataPt |-> dataPt]

\* MemoryPt.write: a new entry under the current timestamp, which is then
\* incremented; no existing entry is touched
MemoryPt_write_NoTick(mp, offset, size, dataPt) ==
    [storePt |-> MapSet(mp.storePt, 0, MemoryPtEntry(offset, size, dataPt)),
     timeStamp |-> mp.timeStamp + 1]

MemoryPt_write(mp, offset, size, dataPt) ==
    [storePt |-> MapSet(mp.storePt, mp.timeStamp,
                        MemoryPtEntry(offset, size, dataPt)),
     timeStamp |-> mp.timeStamp + 1]

\* the addresses of an entry
EntryRange(e) == e.memOffset..(e.memOffset + e.containerSize - 1)

\* a variant that takes every address the entry covers, overwritten later
\* or not
validRange_Covered(mp, t, offset, size) ==
    {a \in offset..(offset + size - 1) : a \in EntryRange(mp.storePt[t])}

\* the addresses of the view [offset, offset + size) that entry t supplies:
\* those it covers and no later entry covers
validRange(mp, t, offset, size) ==
    {a \in offset..(offset + size - 1) :
        /\ a \in EntryRange(mp.storePt[t])
        /\ \A u \in DOMAIN mp.storePt :
              u > t => a \notin EntryRange(mp.storePt[u])}

\* MemoryPt._viewMemoryConflict: the timestamps of the entries that
\* contribute to the view
viewMemoryConflict(mp, offset, size) ==
    {t \in DOMAIN mp.storePt : validRange(mp, t, offset, size) # {}}

\* bit shift that aligns the end of the entry with the end of the view;
\* positive: shift right, negative: shift left
calculateShift(e, offset, size) ==
    ((e.memOffset + e.containerSize - 1) - (offset + size - 1)) * 8

\* 0xff at the bytes of the result that the entry supplies
generateMasker(offset, size, range) ==
    [i \in WordIdx |->
        IF (offset + size - 1) - (WORD_BYTES - i) \in range
        THEN 255 ELSE 0]

\* the timestamps below n that are in T, ascending
RECURSIVE SortedStamps(_, _)
SortedStamps(T, n) ==
    IF n = 0 THEN << >>
    ELSE IF (n - 1) \in T THEN Append(SortedStamps(T, n - 1), n - 1)
    ELSE SortedStamps(T, n - 1)

\* a variant that reports only the latest overlapping write
getDataAlias_LatestOnly(mp, offset, size) ==
    LET overlaps == SortedStamps(viewMemoryConflict(mp, offset, size),
                                 mp.timeStamp)
    IN [k \in 1..(IF Len(overlaps) = 0 THEN 0 ELSE 1) |->
          LET entry == mp.storePt[overlaps[Len(overlaps)]]
          IN [dataPt |-> entry.dataPt,
              shift |-> calculateShift(entry, offset, size),
              masker |-> generateMasker(offset, size,
                            validRange(mp, overlaps[Len(overlaps)],
                                       offset, size))]]

\* MemoryPt.getDataAlias
getDataAlias(mp, offset, size) ==
    LET overlaps == SortedStamps(viewMemoryConflict(mp, offset, size),
                                 mp.timeStamp)
    IN [k \in 1..Len(overlaps) |->
          LET entry == mp.storePt[overlaps[k]]
          IN [dataPt |-> entry.dataPt,
              shift |-> calculateShift(entry, offset, size),
              masker |-> generateMasker(offset, size,
                            validRange(mp, overlaps[k], offset, size))]]

(***************************************************************************)
(* MemoryManager                                                           *)
(***************************************************************************)
\* the shift placement of one fragment (none for an aligned fragment)
\* a variant that shifts to the right whatever the sign
applyShift_RightOnly(st, info) ==
    IF info.shift = 0 THEN [state |-> st, ret |-> info.dataPt]
    ELSE LET amount == IF info.shift > 0 THEN info.shift ELSE 0 - info.shift
             shiftPt == DataPointFactory_create(LITERAL, NO_WIRE,
                                                ToWord(amount), WORD_BYTES)
         IN The({[state |-> r.state, ret |-> r.ret[1]] :
                    r \in {placeArith(st, "SHR", <<shiftPt, info.dataPt>>)}})

applyShift(st, info) ==
    IF info.shift = 0 THEN [state |-> st, ret |-> info.dataPt]
    ELSE LET name == IF info.shift > 0 THEN "SHR" ELSE "SHL"
             amount == IF info.shift > 0 THEN info.shift ELSE 0 - info.shift
             shiftPt == DataPointFactory_create(LITERAL, NO_WIRE,
                                                ToWord(amount), WORD_BYTES)
         IN The({[state |-> r.state, ret |-> r.ret[1]] :
                    r \in {placeArith(st, name, <<shiftPt, info.dataPt>>)}})

\* the mask placement of one fragment
applyMask(st, info, shiftedPt) ==
    LET maskerPt == DataPointFactory_create(LITERAL, NO_WIRE, info.masker,
                                            WORD_BYTES)
    IN The({[state |-> r.state, ret |-> r.ret[1]] :
               r \in {placeArith(st, "AND", <<maskerPt, shiftedPt>>)}})

\* fragments k..Len(infos): shift, mask, OR into the accumulated symbol
RECURSIVE combineFragments(_, _, _, _)
combineFragments(st, infos, k, acc) ==
    IF k > Len(infos) THEN [state |-> st, ret |-> acc]
    ELSE The({The({IF k = 1
                   THEN combineFragments(mk.state, infos, k + 1, mk.ret)
                   ELSE The({combineFragments(o.state, infos, k + 1,
                                              o.ret[1]) :
                                o \in {placeArith(mk.state, "OR",
                                                  <<acc, mk.ret>>)}}) :
                      mk \in {applyMask(sh.state, infos[k], sh.ret)}}) :
                sh \in {applyShift(st, infos[k])}})

\* MemoryManager.placeMemoryToStack
placeMemoryToStack_NoPassThrough(st, dataAliasInfos) ==
    combineFragments(st, dataAliasInfos, 1, loadAuxin(ZeroWord, WORD_BYTES))

placeMemoryToStack(st, dataAliasInfos) ==
    IF Len(dataAliasInfos) = 0
    THEN [state |-> st, ret |-> loadAuxin(ZeroWord, WORD_BYTES)]
    ELSE IF /\ Len(dataAliasInfos) = 1
            /\ dataAliasInfos[1].shift = 0
            /\ dataAliasInfos[1].masker = OnesWord
    THEN [state |-> st, ret |-> dataAliasInfos[1].dataPt]
    ELSE combineFragments(st, dataAliasInfos, 1, loadAuxin(ZeroWord, WORD_BYTES))

\* the symbolic MLOAD handler after the pop of the offset
mloadPt_ZeroViaBuffer(st, mp, offset) ==
    LET dataAliasInfos == getDataAlias(mp, offset, WORD_BYTES)
    IN IF Len(dataAliasInfos) > 0
       THEN placeMemoryToStack(st, dataAliasInfos)
       ELSE addWireToInBuffer(st, loadAuxin(ZeroWord, WORD_BYTES), PRV_IN_PLACEMENT_INDEX)

mloadPt(st, mp, offset) ==
    LET dataAliasInfos == getDataAlias(mp, offset, WORD_BYTES)
    IN IF Len(dataAliasInfos) > 0
       THEN placeMemoryToStack(st, dataAliasInfos)
       ELSE [state |-> st, ret |-> loadAuxin(ZeroWord, WORD_BYTES)]

(***************************************************************************)
(* Program state                                                           *)
(***************************************************************************)
VARIABLES
    code,            \* RunState.code: the instructions of the transaction
    programCounter,  \* RunState.programCounter (1-based, in instructions)
    phase,           \* position of the interpreter inside run()/runStep()
    halt,            \* "None" while running, else "Stop" or "Error"
    error,           \* message of the error that halted the interpreter
    stack,           \* RunState.stack   (concrete; top is the last element)
    stackPt,         \* RunState.stackPt (symbolic; top is the last element)
    memory,          \* RunState.memory   (flat bytes)
    memoryPt,        \* RunState.memoryPt (write history)
    storage,         \* contract storage held by the EVM state manager
    state,           \* StateManager of the Synthesizer
    cur,             \* instruction or call being executed / last executed
    ret,             \* value returned by the last Synthesizer call
    calls,           \* number of direct calls made (memory and facade runs)
    finalizer        \* working data of the Finalizer (empty until it runs)

vars == <<code, programCounter, phase, halt, error, stack, stackPt, memory,
          memoryPt, storage, state, cur, ret, calls, finalizer>>

\* two 32-byte words whose bytes are pairwise different, and small values
WordX == [i \in WordIdx |-> i]
WordY == [i \in WordIdx |-> 64 + i]
NoCall == [op |-> "none", arg |-> 0]
NoRet == loadAuxin(ZeroWord, WORD_BYTES)

\* new Finalizer(state): exec() starts with the refactoring, nothing is
\* refactored and no permutation is built yet
Finalizer_new ==
    [step |-> "refactor", newDataPts |-> << >>, permutation |-> << >>,
     refactored |-> << >>, placementVariables |-> << >>, files |-> {},
     instance |-> [a_pub |-> << >>, a_prv |-> << >>]]

\* the state right after construction, common to all runs
InitCommon ==
    /\ programCounter = 1
    /\ phase = "Ready"
    /\ halt = "None"
    /\ error = ""
    /\ stack = << >>
    /\ stackPt = << >>
    /\ memory = Memory_new
    /\ memoryPt = MemoryPt_new
    /\ state = StateManager_new
    /\ cur = NoCall
    /\ ret = NoRet
    /\ calls = 0
    /\ finalizer = Finalizer_new

(***************************************************************************)
(* Memory run: MemoryPt.write and the MLOAD read path called directly,     *)
(* next to the flat Memory they mirror                                     *)
(***************************************************************************)
MemSymbols == {loadAuxin(WordX, WORD_BYTES), loadAuxin(WordY, WORD_BYTES)}

InitMem ==
    /\ InitCommon
    /\ code = << >>
    /\ storage = << >>

\* MSTORE body: memory.write(offset, 32, value); memoryPt.write(offset, 32, pt)
MemWrite(offset, dataPt) ==
    /\ memoryPt.timeStamp < MaxWrites
    /\ calls < MaxWrites + MaxReads
    /\ memory' = Memory_write(memory, offset, dataPt.value)
    /\ memoryPt' = MemoryPt_write(memoryPt, offset, WORD_BYTES, dataPt)
    /\ cur' = [op |-> "write", arg |-> offset]
    /\ calls' = calls + 1
    /\ UNCHANGED <<finalizer, code, programCounter, phase, halt, error,
                   stack, stackPt,
                   storage, state, ret>>

\* MLOAD body: getDataAlias, then placeMemoryToStack or loadAuxin(0)
MemRead(offset) ==
    /\ calls - memoryPt.timeStamp < MaxReads
    /\ LET r == mloadPt(state, memoryPt, offset)
       IN /\ state' = r.state
          /\ ret' = r.ret
    /\ cur' = [op |-> "read", arg |-> offset]
    /\ calls' = calls + 1
    /\ UNCHANGED <<finalizer, code, programCounter, phase, halt, error,
                   stack, stackPt,
                   memory, memoryPt, storage>>

\* a run ends with one long read, after at most this many writes
MaxWritesBefore == 1

\* lengths in bytes of the long reads: below a word, a word and a part,
\* two words
ReadLengths == {16, 40, 64}

\* the windows of a read of length bytes at offset: nChunks =
\* Math.ceil(length / 32) of them, each a word long but for the rest in
\* the last one
chunkMemory(offset, length) ==
    [i \in 1..((length + WORD_BYTES - 1) \div WORD_BYTES) |->
        [offset |-> offset + WORD_BYTES * (i - 1),
         size |-> IF length - WORD_BYTES * (i - 1) < WORD_BYTES
                  THEN length - WORD_BYTES * (i - 1)
                  ELSE WORD_BYTES]]

\* for (let i = 0; i < nChunks; i++): chunkDataPts[i] =
\* placeMemoryToStack(memoryPt.getDataAlias(_offset, _length))
RECURSIVE placeChunks(_, _, _, _, _)
placeChunks(st, mp, chunks, i, chunkDataPts) ==
    IF i > Len(chunks) THEN [state |-> st, ret |-> chunkDataPts]
    ELSE The({placeChunks(r.state, mp, chunks, i + 1,
                          Append(chunkDataPts, r.ret)) :
                r \in {The({placeMemoryToStack(st, dataAliasInfos) :
                               dataAliasInfos \in
                                   {getDataAlias(mp, chunks[i].offset,
                                                 chunks[i].size)}})}})

\* Synthesizer.storePubOut: the symbol and its value go to PUB_OUT
storePubOut(st, inPt) ==
    addWireToOutBuffer(
        st, inPt,
        DataPointFactory_create(PUB_OUT_PLACEMENT_INDEX,
                                nextIndex(st, PUB_OUT_PLACEMENT_INDEX),
                                inPt.value, WORD_BYTES),
        PUB_OUT_PLACEMENT_INDEX)

\* for (const info of dataAliasInfos): placeMemoryToStack([info]), then
\* storePubOut of the symbol
storeInfos(st, dataAliasInfos) ==
    LET after[k \in 0..Len(dataAliasInfos)] ==
            IF k = 0 THEN st
            ELSE The({storePubOut(r.state, r.ret) :
                         r \in {The({placeMemoryToStack(prev, <<info>>) :
                                        prev \in {after[k - 1]},
                                        info \in {dataAliasInfos[k]}})}})
    IN after[Len(dataAliasInfos)]

\* KECCAK256 body for a length above zero: the chunks are resolved one by
\* one; the hash is computed outside and comes in as an auxiliary input.
\* aliasCalls lists the (offset, size) of the getDataAlias calls made.
MemKeccak(offset, length) ==
    /\ calls = memoryPt.timeStamp
    /\ state' = placeChunks(state, memoryPt, chunkMemory(offset, length),
                            1, << >>).state
    /\ ret' = loadAuxin(WordY, WORD_BYTES)
    /\ cur' = [op |-> "KECCAK256", arg |-> <<offset, length>>,
               aliasCalls |-> chunkMemory(offset, length)]
    /\ calls' = calls + 1
    /\ UNCHANGED <<finalizer, code, programCounter, phase, halt, error,
                   stack, stackPt,
                   memory, memoryPt, storage>>

\* RETURN body for a length above zero: one getDataAlias for the whole
\* range, every fragment placed and written to PUB_OUT on its own
MemReturn(offset, length) ==
    /\ calls = memoryPt.timeStamp
    /\ state' = The({storeInfos(state, dataAliasInfos) :
                        dataAliasInfos \in
                            {getDataAlias(memoryPt, offset, length)}})
    /\ cur' = [op |-> "RETURN", arg |-> <<offset, length>>,
               aliasCalls |-> <<[offset |-> offset, size |-> length]>>]
    /\ calls' = calls + 1
    /\ UNCHANGED <<finalizer, code, programCounter, phase, halt, error,
                   stack, stackPt, ret,
                   memory, memoryPt, storage>>

NextMem ==
    \/ \E offset \in MemOffsets, dataPt \in MemSymbols : MemWrite(offset, dataPt)
    \/ \E offset \in MemOffsets : MemRead(offset)

SpecMem == InitMem /\ [][NextMem]_vars

\* an MSTORE before the long read
MemWriteBefore(offset, dataPt) ==
    /\ calls = memoryPt.timeStamp
    /\ memoryPt.timeStamp < MaxWritesBefore
    /\ MemWrite(offset, dataPt)

\* writes, then one long read
NextLongRead ==
    \/ \E offset \in MemOffsets, dataPt \in MemSymbols :
          MemWriteBefore(offset, dataPt)
    \/ \E offset \in MemOffsets, length \in ReadLengths :
          MemKeccak(offset, length)
    \/ \E offset \in MemOffsets, length \in ReadLengths :
          MemReturn(offset, length)

SpecLongRead == InitMem /\ [][NextLongRead]_vars

WriteStep == calls' = calls + 1 /\ cur'.op = "write"
ReadStep == calls' = calls + 1 /\ cur'.op = "read"
ReadRange(offset) == offset..(offset + WORD_BYTES - 1)

\* C6: every write appends exactly one history entry whose timestamp is
\* greater than every earlier one, and no write or read changes or
\* removes an entry already recorded.
WriteHistoryAppendOnly ==
    [][LET old == memoryPt.storePt
           new == memoryPt'.storePt
       IN /\ \A t \in DOMAIN old : t \in DOMAIN new /\ new[t] = old[t]
          /\ WriteStep =>
                \E t \in DOMAIN new :
                    /\ t \notin DOMAIN old
                    /\ DOMAIN new = DOMAIN old \cup {t}
                    /\ \A u \in DOMAIN old : u < t
          /\ ~WriteStep => DOMAIN new = DOMAIN old]_vars

\* three writes were recorded and a read followed them
WriteHistoryWitness ==
    /\ cur.op = "read"
    /\ DOMAIN memoryPt.storePt = {0, 1, 2}
    /\ memoryPt.storePt[0].memOffset = memoryPt.storePt[2].memOffset

\* no recorded write touches a byte of the 32-byte region at offset
NoOverlap(mp, offset) ==
    \A t \in DOMAIN mp.storePt :
        EntryRange(mp.storePt[t]) \cap ReadRange(offset) = {}

AlignedIntact(mp, t, offset) ==
    /\ mp.storePt[t].memOffset = offset
    /\ mp.storePt[t].containerSize = WORD_BYTES
    /\ \A u \in DOMAIN mp.storePt :
          u > t => EntryRange(mp.storePt[u]) \cap ReadRange(offset) = {}

ContractAddress == "0xC0DE"
StorageKeys == {ToWord(0), ToWord(1)}

\* stateManager.getContractStorage / putContractStorage of the EVM
getContractStorage(sto, key) ==
    IF key \in DOMAIN sto THEN sto[key] ELSE ZeroWord
putContractStorage(sto, key, value) == MapSet(sto, key, value)

StorageInits == {<< >>, MapSet(<< >>, ToWord(0), ToWord(5))}

Aux10 == loadAuxin(ToWord(10), WORD_BYTES)
Aux5 == loadAuxin(ToWord(5), WORD_BYTES)

InitFacade ==
    /\ InitCommon
    /\ code = << >>
    /\ storage \in StorageInits

FacadeDone(call) ==
    /\ cur' = call
    /\ calls' = calls + 1
    /\ UNCHANGED <<finalizer, code, programCounter, phase, halt, error,
                   stack, stackPt,
                   memory, memoryPt>>

FacadePlaceArith(name, inPts) ==
    /\ calls < MaxCalls
    /\ LET r == placeArith(state, name, inPts)
       IN /\ state' = r.state
          /\ ret' = r.ret[1]
    /\ FacadeDone([op |-> "placeArith", arg |-> <<name, inPts>>])
    /\ UNCHANGED storage

\* symbolic part of SLOAD
FacadeLoadStorage(key) ==
    /\ calls < MaxCalls
    /\ LET r == loadStorage(state, ContractAddress, key,
                            getContractStorage(storage, key))
       IN /\ state' = r.state
          /\ ret' = r.ret
    /\ FacadeDone([op |-> "loadStorage", arg |-> key])
    /\ UNCHANGED storage

\* symbolic part of CALLDATALOAD, NUMBER, BALANCE: the value observed by
\* the EVM goes in as it is
FacadeLoadEnvInf(name, key) ==
    /\ calls < MaxCalls
    /\ LET r == loadEnvInf(state, ContractAddress, name, Aux5.value, key)
       IN /\ state' = r.state
          /\ ret' = r.ret
    /\ FacadeDone([op |-> "loadEnvInf", arg |-> <<name, key>>])
    /\ UNCHANGED storage

\* symbolic part of SSTORE
FacadeStoreStorage(key, valuePt) ==
    /\ calls < MaxCalls
    /\ storage' = putContractStorage(storage, key, valuePt.value)
    /\ state' = storePrvOut(state, ContractAddress, valuePt, key)
    /\ FacadeDone([op |-> "storePrvOut", arg |-> key])
    /\ UNCHANGED ret

\* an output of the transaction: the symbol and the value observed for
\* it go to the output buffer
FacadeAddWireToOutBuffer(inPt, placementId) ==
    /\ calls < MaxCalls
    /\ state' = addWireToOutBuffer(
                    state, inPt,
                    DataPointFactory_create(placementId,
                                            nextIndex(state, placementId),
                                            inPt.value, WORD_BYTES),
                    placementId)
    /\ FacadeDone([op |-> "addWireToOutBuffer", arg |-> placementId])
    /\ UNCHANGED <<storage, ret>>

FacadeAddWireToInBuffer(inPt, placementId) ==
    /\ calls < MaxCalls
    /\ LET r == addWireToInBuffer(state, inPt, placementId)
       IN /\ state' = r.state
          /\ ret' = r.ret
    /\ FacadeDone([op |-> "addWireToInBuffer", arg |-> placementId])
    /\ UNCHANGED storage

InBufferIds == {PUB_IN_PLACEMENT_INDEX, PRV_IN_PLACEMENT_INDEX}

NextFacade ==
    \/ \E name \in ArithmeticOperator, a \in {Aux10, ret} :
          FacadePlaceArith(name, <<a, Aux5>>)
    \/ \E key \in StorageKeys : FacadeLoadStorage(key)
    \/ \E name \in {"Calldata", "NUMBER", "Balance"} :
          FacadeLoadEnvInf(name, 0)
    \/ \E key \in StorageKeys : FacadeStoreStorage(key, ret)
    \/ \E placementId \in InBufferIds :
          FacadeAddWireToInBuffer(Aux5, placementId)
    \/ \E placementId \in BufferIds \ InBufferIds :
          FacadeAddWireToOutBuffer(ret, placementId)

SpecFacade == InitFacade /\ [][NextFacade]_vars

\* C4: the ids handed out by getNextPlacementIndex start at 4, strictly
\* increase and are never reused; no operation registers a placement
\* under a buffer id 0-3 or replaces a placement already registered.
PlacementIdsFresh ==
    /\ [](/\ state.placementIndex >= INITIAL_PLACEMENT_INDEX
          /\ DOMAIN state.placements = BufferIds =>
                state.placementIndex = INITIAL_PLACEMENT_INDEX
          /\ BufferIds \subseteq DOMAIN state.placements
          /\ \A id \in DOMAIN state.placements : id < state.placementIndex)
    /\ [][LET old == state.placements
              new == state'.placements
          IN /\ state'.placementIndex >= state.placementIndex
             /\ \A id \in DOMAIN old :
                   /\ id \in DOMAIN new
                   /\ new[id].name = old[id].name
                   /\ new[id].usage = old[id].usage
                   /\ id \notin BufferIds => new[id] = old[id]
             /\ \A id \in DOMAIN new :
                   id \notin DOMAIN old =>
                       /\ id >= INITIAL_PLACEMENT_INDEX
                       /\ id >= state.placementIndex
                       /\ id < state'.placementIndex]_vars

\* two placements were registered one after the other, beside a buffer wire
PlacementIdsWitness ==
    /\ Cardinality(DOMAIN state.placements \ BufferIds) = 2
    /\ cur.op = "placeArith"
    /\ Len(state.placements[PRV_IN_PLACEMENT_INDEX].outPts) = 1

LoadStep == calls' = calls + 1 /\ cur'.op = "loadStorage"

\* C5: a loadStorage of a key already loaded returns the very symbol the
\* first load returned and leaves the PRV_IN wires, the other buffers and
\* the placement counter unchanged.
WarmLoadIdempotent ==
    [][/\ \A k \in DOMAIN state.storagePt :
             k \in DOMAIN state'.storagePt
             /\ state'.storagePt[k] = state.storagePt[k]
       /\ LoadStep =>
             LET k == keyString(ContractAddress, cur'.arg)
             IN IF k \in DOMAIN state.storagePt
                THEN /\ ret' = state.storagePt[k]
                     /\ state'.placements = state.placements
                     /\ state'.placementIndex = state.placementIndex
                ELSE /\ k \in DOMAIN state'.storagePt
                     /\ state'.storagePt[k] = ret']_vars

\* the same key was loaded, something else happened, and it was loaded again
WarmLoadWitness ==
    /\ calls = 3
    /\ cur.op = "loadStorage"
    /\ ret = state.storagePt[keyString(ContractAddress, cur.arg)]
    /\ Len(state.placements[PRV_IN_PLACEMENT_INDEX].outPts) = 1
    /\ state.placementIndex > INITIAL_PLACEMENT_INDEX

AddWireStep == calls' = calls + 1 /\ cur'.op = "addWireToInBuffer"

ArithStep == calls' = calls + 1 /\ cur'.op = "placeArith"

\* the subcircuit table of the opcode reference, restated
TableSubcircuit ==
    [ADD |-> <<"ALU1", BitWord(1)>>, DIV |-> <<"ALU2", BitWord(4)>>,
     MOD |-> <<"ALU2", BitWord(6)>>, AND |-> <<"AND", ZeroWord>>,
     OR |-> <<"OR", ZeroWord>>, SHL |-> <<"ALU3", BitWord(27)>>,
     SHR |-> <<"ALU3", BitWord(28)>>]

LIMB_BYTES == 16
\* wires refactored in one run
MaxWires == 3

\* a variant that shifts by the limb size in bytes instead of bits
halveWordSizeOfWires_ShiftInBytes(newDataPts, origDataPt) ==
    LET indLow == Len(newDataPts)
        indHigh == indLow + 1
        mask == [i \in WordIdx |-> IF i > WORD_BYTES - LIMB_BYTES THEN 255 ELSE 0]
        hex16(v) == SubSeq(v, WORD_BYTES - LIMB_BYTES + 1, WORD_BYTES)
        high == ShrWord(origDataPt.value, LIMB_BYTES)
        low == AndWord(origDataPt.value, mask)
    IN IF origDataPt.sourceSize > LIMB_BYTES
       THEN [newDataPts |-> newDataPts \o
                <<[source |-> origDataPt.source, wireIndex |-> indLow,
                   value |-> low, sourceSize |-> origDataPt.sourceSize,
                   valueHex |-> hex16(low)],
                  [source |-> origDataPt.source, wireIndex |-> indHigh,
                   value |-> high, sourceSize |-> origDataPt.sourceSize,
                   valueHex |-> hex16(high)]>>,
             ret |-> <<indLow, indHigh>>]
       ELSE [newDataPts |-> Append(newDataPts,
                                   [origDataPt EXCEPT !.wireIndex = indLow]),
             ret |-> <<indLow>>]

\* a variant that never splits a wire
halveWordSizeOfWires_NoSplit(newDataPts, origDataPt) ==
    [newDataPts |-> Append(newDataPts,
                           [origDataPt EXCEPT !.wireIndex = Len(newDataPts)]),
     ret |-> <<Len(newDataPts)>>]

\* PlacementRefactor.halveWordSizeOfWires: appends origDataPt to newDataPts,
\* as two limbs when it is wider than 16 bytes, and returns the new wire
\* indices (0-based; newDataPts[k] of the code is newDataPts[k + 1] here).
\* bigIntToBytes drops the leading zero bytes and setLengthLeft(.., 16)
\* pads or cuts on the left to 16 bytes: together the 16 low bytes.
halveWordSizeOfWires(newDataPts, origDataPt) ==
    LET newIndex == Len(newDataPts)
        indLow == newIndex
        indHigh == indLow + 1
        \* 2n ** 128n - 1n
        mask == [i \in WordIdx |-> IF i > WORD_BYTES - LIMB_BYTES THEN 255 ELSE 0]
        bigIntToBytes(v) ==
            LET nz == {i \in WordIdx : v[i] # 0}
                first == IF nz = {} THEN WORD_BYTES
                         ELSE CHOOSE i \in nz : \A j \in nz : i <= j
            IN SubSeq(v, first, WORD_BYTES)
        setLengthLeft(b, n) ==
            IF Len(b) < n THEN [i \in 1..(n - Len(b)) |-> 0] \o b
            ELSE SubSeq(b, Len(b) - n + 1, Len(b))
        high == ShrWord(origDataPt.value, 128)
        low == AndWord(origDataPt.value, mask)
    IN IF origDataPt.sourceSize > LIMB_BYTES
       THEN [newDataPts |-> newDataPts \o
                <<[source |-> origDataPt.source, wireIndex |-> indLow,
                   value |-> low, sourceSize |-> origDataPt.sourceSize,
                   valueHex |-> setLengthLeft(bigIntToBytes(low), LIMB_BYTES)],
                  [source |-> origDataPt.source, wireIndex |-> indHigh,
                   value |-> high, sourceSize |-> origDataPt.sourceSize,
                   valueHex |-> setLengthLeft(bigIntToBytes(high), LIMB_BYTES)]>>,
             ret |-> <<indLow, indHigh>>]
       ELSE [newDataPts |-> Append(newDataPts,
                                   [origDataPt EXCEPT !.wireIndex = newIndex]),
             ret |-> <<newIndex>>]

(* -------- Permutation (wire-equality cycles) -------- *)
\* the input wires that consume the output wire (source s, wireIndex w),
\* over the placements below id n in ascending order; a wire is named by
\* <<row, col>>: its position in the placement's wire list (outputs
\* first, then inputs) and the placement id
RECURSIVE consumers(_, _, _, _)
consumers(placements, n, s, w) ==
    IF n = 0 THEN << >>
    ELSE LET id == n - 1
             rest == consumers(placements, id, s, w)
         IN IF id \notin DOMAIN placements THEN rest
            ELSE LET p == placements[id]
                     hit(i) == /\ p.inPts[i].source = s
                               /\ p.inPts[i].wireIndex = w
                     sel == SelectSeq([i \in 1..Len(p.inPts) |-> i], hit)
                 IN rest \o [k \in 1..Len(sel) |->
                                <<Len(p.outPts) + sel[k] - 1, id>>]

\* Permutation._buildPermGroup: one group per output wire that some input
\* consumes, the producing wire first and its consumers after it
RECURSIVE buildPermGroup(_, _, _)
buildPermGroup(placements, limit, n) ==
    IF n = 0 THEN << >>
    ELSE LET id == n - 1
             rest == buildPermGroup(placements, limit, id)
         IN IF id \notin DOMAIN placements THEN rest
            ELSE LET outs == placements[id].outPts
                     all == [k \in 1..Len(outs) |->
                                <<<<k - 1, id>>>> \o
                                consumers(placements, limit, outs[k].source,
                                          outs[k].wireIndex)]
                     used(g) == Len(g) > 1
                 IN rest \o SelectSeq(all, used)

\* a variant whose last entry does not lead back to the first
correctPermutation_NoWrap(permGroup) ==
    [g \in 1..Len(permGroup) |->
        LET group == permGroup[g]
        IN [i \in 1..Len(group) |->
              LET next == group[IF i = Len(group) THEN i ELSE i + 1]
              IN [row |-> group[i][1], col |-> group[i][2],
                  X |-> next[1], Y |-> next[2]]]]

\* Permutation._correctPermutation: each group becomes one cycle; the
\* entry of a wire names the next wire of the group, the last one the first
correctPermutation(permGroup) ==
    [g \in 1..Len(permGroup) |->
        LET group == permGroup[g]
        IN [i \in 1..Len(group) |->
              LET next == group[(i % Len(group)) + 1]
              IN [row |-> group[i][1], col |-> group[i][2],
                  X |-> next[1], Y |-> next[2]]]]

(* -------- PlacementRefactor.refactor() -------- *)
\* some input of some placement refers to the wire pt
isReferenced(placements, pt) ==
    \E id \in DOMAIN placements :
        \E i \in DOMAIN placements[id].inPts :
            /\ placements[id].inPts[i].source = pt.source
            /\ placements[id].inPts[i].wireIndex = pt.wireIndex

\* step 1 of refactor(): the wires of the load buffers that no placement
\* uses are removed, each with the external value it was loaded from
removeUnusedLoadWires(placements) ==
    [id \in DOMAIN placements |->
        IF id \in {PUB_IN_PLACEMENT_INDEX, PRV_IN_PLACEMENT_INDEX}
        THEN LET used(i) == isReferenced(placements, placements[id].outPts[i])
                 kept == SelectSeq([i \in 1..Len(placements[id].outPts) |-> i],
                                   used)
             IN [placements[id] EXCEPT
                    !.inPts = [k \in 1..Len(kept) |-> @[kept[k]]],
                    !.outPts = [k \in 1..Len(kept) |-> @[kept[k]]]]
        ELSE placements[id]]

\* step 2 of refactor() on one wire list: halveWordSizeOfWires on the
\* wires lo..hi in turn; newDataPts is the new list and indices[i] the
\* new indices the i-th old wire got
RECURSIVE halveWires(_, _, _, _)
halveWires(pts, lo, hi, acc) ==
    IF lo > hi THEN acc
    ELSE IF lo = hi
    THEN The({[newDataPts |-> r.newDataPts,
               indices |-> Append(acc.indices, r.ret)] :
                r \in {halveWordSizeOfWires(acc.newDataPts, pts[lo])}})
    ELSE The({halveWires(pts, (lo + hi) \div 2 + 1, hi, left) :
                left \in {halveWires(pts, lo, (lo + hi) \div 2, acc)}})

\* the new index of limb number limb of the wire (source, wireIndex), as
\* its producer has it after step 2; NO_WIRE for a wire nothing produces
newWireIndex(placements, halved, source, wireIndex, limb) ==
    LET producers ==
            {<<id, k>> \in UNION {{<<id, k>> :
                                     k \in DOMAIN placements[id].outPts} :
                                   id \in DOMAIN placements} :
                /\ placements[id].outPts[k].source = source
                /\ placements[id].outPts[k].wireIndex = wireIndex}
    IN IF producers = {} \/ wireIndex = NO_WIRE THEN NO_WIRE
       ELSE LET pr == CHOOSE x \in producers : TRUE
            IN halved[pr[1]].outs.indices[pr[2]][limb]

\* a variant without step 3: the input wires keep the indices the
\* halving gave them
refactor_NoRemap(placements) ==
    LET diet == removeUnusedLoadWires(placements)
        empty == [newDataPts |-> << >>, indices |-> << >>]
    IN [id \in DOMAIN diet |->
           [diet[id] EXCEPT
               !.inPts = halveWires(@, 1, Len(@), empty).newDataPts,
               !.outPts = halveWires(@, 1, Len(@), empty).newDataPts]]

\* refactor(): unused load wires removed, every wire list halved, and
\* (step 3) every input wire made to refer to the new index of the limb
\* of the output wire it came from
refactor(placements) ==
    LET diet == removeUnusedLoadWires(placements)
        halved == [id \in DOMAIN diet |->
                      [ins |-> halveWires(diet[id].inPts, 1,
                                          Len(diet[id].inPts),
                                          [newDataPts |-> << >>,
                                           indices |-> << >>]),
                       outs |-> halveWires(diet[id].outPts, 1,
                                           Len(diet[id].outPts),
                                           [newDataPts |-> << >>,
                                            indices |-> << >>])]]
        remapped(id) ==
            LET ins == halved[id].ins
                old(n) == CHOOSE i \in 1..Len(ins.indices) :
                              \E l \in 1..Len(ins.indices[i]) :
                                  ins.indices[i][l] = n - 1
                limb(n) == CHOOSE l \in 1..Len(ins.indices[old(n)]) :
                              ins.indices[old(n)][l] = n - 1
            IN [n \in 1..Len(ins.newDataPts) |->
                   [ins.newDataPts[n] EXCEPT
                       !.wireIndex =
                           newWireIndex(diet, halved,
                                        diet[id].inPts[old(n)].source,
                                        diet[id].inPts[old(n)].wireIndex,
                                        limb(n))]]
    IN [id \in DOMAIN diet |->
           [diet[id] EXCEPT !.inPts = remapped(id),
                            !.outPts = halved[id].outs.newDataPts]]

(* -------- Finalizer.exec() after a transaction -------- *)
\* StateManagers as transactions leave them: a storage word loaded,
\* then added to a PUSH1 operand, the sum masked and stored; an OR of a
\* 16-byte and a 17-byte operand
ExecutedStates ==
    LET ld == loadStorage(StateManager_new, ContractAddress, ToWord(0), WordX)
        a1 == placeArith(ld.state, "ADD", <<ld.ret, loadAuxin(ToWord(5), 1)>>)
        a2 == placeArith(a1.state, "AND", <<a1.ret[1], ld.ret>>)
        st == storePrvOut(a2.state, ContractAddress, a2.ret[1], ToWord(1))
        o1 == placeArith(StateManager_new, "OR",
                         <<loadAuxin(ShrWord(WordY, 128), LIMB_BYTES),
                           loadAuxin(ShrWord(WordX, 120), LIMB_BYTES + 1)>>)
    IN {StateManager_new, ld.state, a1.state, st, o1.state}

\* every wire of every placement
Wires(placements) ==
    UNION {{placements[id].inPts[i] : i \in DOMAIN placements[id].inPts}
           \cup {placements[id].outPts[i] : i \in DOMAIN placements[id].outPts}
           : id \in DOMAIN placements}

InitFinalizer ==
    /\ InitCommon
    /\ code = << >>
    /\ storage = << >>

\* the transaction has run and left st behind
Executed(st) ==
    /\ phase = "Ready"
    /\ phase' = "Halted"
    /\ halt' = "Stop"
    /\ state' = st
    /\ UNCHANGED <<finalizer, code, programCounter, error, stack, stackPt,
                   memory, memoryPt, storage, cur, ret, calls>>

\* refactor(): one wire of a placement goes through halveWordSizeOfWires
HalveWordSizeOfWires ==
    /\ phase = "Halted"
    /\ finalizer.step = "refactor"
    /\ calls < MaxWires
    /\ \E origDataPt \in Wires(state.placements) :
          LET r == halveWordSizeOfWires(finalizer.newDataPts, origDataPt)
          IN /\ finalizer' = [finalizer EXCEPT !.newDataPts = r.newDataPts]
             /\ ret' = r.ret
             /\ cur' = [op |-> "halveWordSizeOfWires", arg |-> origDataPt]
    /\ calls' = calls + 1
    /\ UNCHANGED <<code, programCounter, phase, halt, error, stack, stackPt,
                   memory, memoryPt, storage, state>>

\* new Permutation(placements): the groups, then the cycles
NewPermutation ==
    /\ phase = "Halted"
    /\ finalizer.step = "refactor"
    /\ finalizer' =
          [finalizer EXCEPT
              !.step = "permutation",
              !.permutation =
                  correctPermutation(
                      buildPermGroup(state.placements, state.placementIndex,
                                     state.placementIndex))]
    /\ cur' = [op |-> "Permutation", arg |-> 0]
    /\ UNCHANGED <<code, programCounter, phase, halt, error, stack, stackPt,
                   memory, memoryPt, storage, state, ret, calls>>

NextFinalizer ==
    \/ \E st \in ExecutedStates : Executed(st)
    \/ HalveWordSizeOfWires
    \/ NewPermutation

SpecFinalizer == InitFinalizer /\ [][NextFinalizer]_vars

\* the value has no bit at or above 2^128
FitsLimb(v) == \A i \in 1..(WORD_BYTES - LIMB_BYTES) : v[i] = 0

Ins(op, arg, n) == [op |-> op, arg |-> arg, n |-> n]

PushValues == {ToWord(0), ToWord(5), ToWord(10), ToWord(16)}

\* the instructions programs are enumerated over
Alphabet ==
    {Ins("PUSH", v, 1) : v \in PushValues}
    \cup {Ins(op, 0, 0) : op \in {"POP", "DUP", "SWAP", "ADD", "DIV", "MOD",
                                   "EXP",
                                   "MLOAD", "MSTORE", "SLOAD", "SSTORE"}}

RECURSIVE ProgramsUpTo(_)
ProgramsUpTo(n) ==
    IF n = 0 THEN {<< >>}
    ELSE LET S == ProgramsUpTo(n - 1)
         IN S \cup {Append(p, i) : p \in S, i \in Alphabet}

Push1(n) == Ins("PUSH", ToWord(n), 1)
\* 2 ** n - 1
LowOnes(n) ==
    [i \in WordIdx |->
        IF i > WORD_BYTES - (n \div 8) THEN 255
        ELSE IF i = WORD_BYTES - (n \div 8) THEN 2 ^ (n % 8) - 1 ELSE 0]
Op(name) == Ins(name, 0, 0)

\* longer transactions: arithmetic, overlapping memory writes, storage
\* the transactions the Finalizer is run after
ExecPrograms ==
    {<<Push1(5), Push1(10), Op("ADD"), Op("DUP"), Op("ADD"), Op("POP")>>,
     <<Ins("PUSH", WordX, 32), Push1(0), Op("MSTORE"),
       Ins("PUSH", WordY, 32), Push1(16), Op("MSTORE"),
       Push1(0), Op("MLOAD"), Push1(16), Op("MLOAD"), Op("ADD")>>,
     <<Push1(0), Op("SLOAD"), Push1(0), Op("SLOAD"), Op("ADD"),
       Push1(1), Op("SSTORE")>>,
     <<Push1(0), Op("SLOAD"), Push1(5), Op("ADD"), Push1(0), Op("SSTORE"),
       Push1(0), Op("SLOAD"), Push1(1), Op("POP")>>,
     <<Push1(0), Op("SLOAD"), Push1(5), Push1(0), Op("MSTORE"),
       Push1(7), Op("JUMP"), Op("JUMPDEST"), Op("POP")>>,
     <<Push1(5), Push1(10), Op("ADD"), Push1(5), Op("JUMPI"),
       Op("JUMPDEST"), Push1(16)>>,
     <<Push1(5), Push1(4), Op("JUMPI"), Push1(10), Op("JUMPDEST"),
       Push1(16)>>,
     <<Push1(0), Push1(4), Op("JUMPI"), Push1(10), Op("JUMPDEST")>>,
     <<Push1(5), Op("JUMP")>>,
     <<Push1(5), Push1(16), Op("JUMPI")>>,
     <<Op("JUMP")>>,
     <<Push1(5), Op("JUMPI")>>,
     <<Push1(5), Push1(10), Op("SWAP"), Op("DIV"), Push1(16), Op("MOD")>>,
     <<Push1(5), Push1(10), Op("EXP")>>,
     <<Push1(0), Push1(0), Push1(0), Op("CREATE")>>,
     <<Push1(5), Push1(10), Op("ADD"), Push1(0), Op("REVERT")>>,
     <<Push1(5), Op("SELFDESTRUCT")>>,
     <<Push1(0), Op("SLOAD"), Push1(5), Op("ADD"), Push1(1), Op("SSTORE")>>,
     <<Op("ADDRESS"), Push1(0), Op("SLOAD"), Op("ADD"), Push1(1),
       Op("SSTORE"), Op("ADDRESS")>>,
     <<Ins("PUSH", WordX, 32), Push1(0), Op("MSTORE"),
       Push1(40), Push1(16), Op("KECCAK256"), Push1(5), Op("ADD")>>,
     <<Push1(5), Push1(0), Push1(0), Op("KECCAK256"), Op("ADD")>>}

LongPrograms ==
    ExecPrograms
    \cup {<<Ins("PUSH", LowOnes(64), 8), Push1(5), Op("EXP")>>,
          <<Ins("PUSH", LowOnes(49), 7), Push1(5), Op("EXP")>>}

Programs == ProgramsUpTo(MaxCodeLen) \cup LongPrograms

Init ==
    /\ InitCommon
    /\ code \in Programs
    /\ storage \in StorageInits

\* the RunState the handlers work on, and an EvmError thrown by one
RunState ==
    [stack |-> stack, stackPt |-> stackPt, memory |-> memory,
     memoryPt |-> memoryPt, storage |-> storage, state |-> state, err |-> ""]
Throw(rs, e) == [rs EXCEPT !.err = e]
STACK_UNDERFLOW == "stack underflow"
OUT_OF_GAS == "out of gas"
STACK_MISMATCH == "Synthesizer: Stack mismatch between EVM and Synthesizer"
NOT_SUPPORTED == "Synthesizer: opcode not supported"
UnsupportedOpcodes == {"CREATE", "REVERT", "SELFDESTRUCT"}

\* Stack.popN / StackPt.popN: the top comes first
popN(s, n) == [i \in 1..n |-> s[Len(s) - i + 1]]
popRest(s, n) == SubSeq(s, 1, Len(s) - n)
\* dup(position) and swap(position), positions counted from the top
dup(s, position) == Append(s, s[Len(s) - position + 1])
swap(s, position) ==
    [s EXCEPT ![Len(s)] = s[Len(s) - position],
              ![Len(s) - position] = s[Len(s)]]

\* an offset the memory can be expanded to
MemoryOffsetOk(w) == IsSmall(w) /\ ToNat(w) < 256

(* -------- concrete (EVM) halves of the handlers -------- *)
ADD_evm(rs) ==
    IF Len(rs.stack) < 2 THEN Throw(rs, STACK_UNDERFLOW)
    ELSE LET ab == popN(rs.stack, 2)
             r == AddWord(ab[1], ab[2])
         IN [rs EXCEPT !.stack = Append(popRest(rs.stack, 2), r)]

POP_evm(rs) ==
    IF Len(rs.stack) < 1 THEN Throw(rs, STACK_UNDERFLOW)
    ELSE [rs EXCEPT !.stack = popRest(rs.stack, 1)]

PUSH_evm(rs) == [rs EXCEPT !.stack = Append(rs.stack, cur.arg)]

\* a jump destination is the (0-based) position of a JUMPDEST of the code
INVALID_JUMP == "invalid JUMP"
validJump(dest) ==
    /\ IsSmall(dest)
    /\ ToNat(dest) < Len(code)
    /\ code[ToNat(dest) + 1].op = "JUMPDEST"

\* JUMP: counter -> -, the interpreter moves the program counter
JUMP_evm(rs) ==
    IF Len(rs.stack) < 1 THEN Throw(rs, STACK_UNDERFLOW)
    ELSE IF ~validJump(popN(rs.stack, 1)[1]) THEN Throw(rs, INVALID_JUMP)
    ELSE [rs EXCEPT !.stack = popRest(rs.stack, 1)]

\* JUMPI: counter, condition -> -, the jump is taken when the condition
\* is not zero
JUMPI_evm(rs) ==
    IF Len(rs.stack) < 2 THEN Throw(rs, STACK_UNDERFLOW)
    ELSE IF popN(rs.stack, 2)[2] # ZeroWord /\ ~validJump(popN(rs.stack, 2)[1])
    THEN Throw(rs, INVALID_JUMP)
    ELSE [rs EXCEPT !.stack = popRest(rs.stack, 2)]

\* the program counter after the JUMP or JUMPI that was fetched: the
\* destination when the jump is taken, the next instruction otherwise
jumpTarget(rs, conditional) ==
    IF conditional
    THEN IF Len(rs.stack) >= 2 /\ popN(rs.stack, 2)[2] # ZeroWord
            /\ validJump(popN(rs.stack, 2)[1])
         THEN ToNat(popN(rs.stack, 2)[1]) + 1 ELSE programCounter
    ELSE IF Len(rs.stack) >= 1 /\ validJump(popN(rs.stack, 1)[1])
         THEN ToNat(popN(rs.stack, 1)[1]) + 1 ELSE programCounter

DUP_evm(rs) ==
    IF Len(rs.stack) < 1 THEN Throw(rs, STACK_UNDERFLOW)
    ELSE [rs EXCEPT !.stack = dup(rs.stack, 1)]

SWAP_evm(rs) ==
    IF Len(rs.stack) < 2 THEN Throw(rs, STACK_UNDERFLOW)
    ELSE [rs EXCEPT !.stack = swap(rs.stack, 1)]

MLOAD_evm(rs) ==
    IF Len(rs.stack) < 1 THEN Throw(rs, STACK_UNDERFLOW)
    ELSE LET offset == popN(rs.stack, 1)[1]
         IN IF ~MemoryOffsetOk(offset) THEN Throw(rs, OUT_OF_GAS)
            ELSE [rs EXCEPT !.stack =
                     Append(popRest(rs.stack, 1),
                            Memory_read(rs.memory, ToNat(offset)))]

MSTORE_evm(rs) ==
    IF Len(rs.stack) < 2 THEN Throw(rs, STACK_UNDERFLOW)
    ELSE LET ov == popN(rs.stack, 2)
         IN IF ~MemoryOffsetOk(ov[1]) THEN Throw(rs, OUT_OF_GAS)
            ELSE [rs EXCEPT !.stack = popRest(rs.stack, 2),
                            !.memory = Memory_write(rs.memory, ToNat(ov[1]),
                                                    ov[2])]

SLOAD_evm(rs) ==
    IF Len(rs.stack) < 1 THEN Throw(rs, STACK_UNDERFLOW)
    ELSE LET key == popN(rs.stack, 1)[1]
         IN [rs EXCEPT !.stack = Append(popRest(rs.stack, 1),
                                        getContractStorage(rs.storage, key))]

SSTORE_evm(rs) ==
    IF Len(rs.stack) < 2 THEN Throw(rs, STACK_UNDERFLOW)
    ELSE LET kv == popN(rs.stack, 2)
         IN [rs EXCEPT !.stack = popRest(rs.stack, 2),
                       !.storage = putContractStorage(rs.storage, kv[1], kv[2])]

\* KECCAK256: offset, size -> keccak256(memory[offset:offset+size]); the
\* hash function is not computed here, hash is what it returned
HashValues == {WordX, WordY}
KECCAK256_evm(rs, hash) ==
    IF Len(rs.stack) < 2 THEN Throw(rs, STACK_UNDERFLOW)
    ELSE LET os == popN(rs.stack, 2)
         IN IF ~MemoryOffsetOk(os[1]) \/ ~MemoryOffsetOk(os[2])
            THEN Throw(rs, OUT_OF_GAS)
            ELSE [rs EXCEPT !.stack = Append(popRest(rs.stack, 2), hash)]

\* ADDRESS: - -> address(this)
AddressValue == ShrWord(WordY, 96)
ADDRESS_evm(rs) == [rs EXCEPT !.stack = Append(rs.stack, AddressValue)]

(* -------- symbolic (Synthesizer) halves of the handlers -------- *)
\* Synthesizer.loadAndStoreKeccak(inPts, outValue, length): the hash
\* becomes one auxiliary-input symbol
loadAndStoreKeccak(st, inPts, outValue, length) ==
    [state |-> st, ret |-> loadAuxin(outValue, WORD_BYTES)]

\* KECCAK256: the chunks of the hashed memory are resolved into symbols,
\* the hash is read from the top of the EVM stack (stack.peek(1)[0]);
\* all of it only for a length other than zero
KECCAK256_synth(rs) ==
    IF Len(rs.stackPt) < 2 THEN Throw(rs, STACK_UNDERFLOW)
    ELSE LET ol == popN(rs.stackPt, 2)
             offset == ol[1].value
             length == ol[2].value
         IN IF ~MemoryOffsetOk(offset) \/ ~MemoryOffsetOk(length)
            THEN Throw(rs, OUT_OF_GAS)
            ELSE IF length # ZeroWord
            THEN The({The({[rs EXCEPT
                               !.stackPt = Append(popRest(rs.stackPt, 2),
                                                  r.ret),
                               !.state = r.state] :
                             r \in {loadAndStoreKeccak(
                                        chunks.state, chunks.ret,
                                        rs.stack[Len(rs.stack)], length)}}) :
                        chunks \in {placeChunks(rs.state, rs.memoryPt,
                                                chunkMemory(ToNat(offset),
                                                            ToNat(length)),
                                                1, << >>)}})
            ELSE [rs EXCEPT !.stackPt = popRest(rs.stackPt, 2)]

\* a variant that loads the address as a private input
ADDRESS_synth_Private(rs) ==
    LET r == loadEnvInf(rs.state, ContractAddress, "Balance", AddressValue, 0)
    IN [rs EXCEPT !.stackPt = Append(rs.stackPt, r.ret), !.state = r.state]

\* synthesizerEnvInf('ADDRESS', runState): the address comes in through
\* PUB_IN and its symbol is pushed
ADDRESS_synth(rs) ==
    LET r == loadEnvInf(rs.state, ContractAddress, "ADDRESS", AddressValue, 0)
    IN [rs EXCEPT !.stackPt = Append(rs.stackPt, r.ret), !.state = r.state]

\* synthesizerArith(op, ins, out, runState)
synthesizerArith(rs, op, nIns) ==
    IF Len(rs.stackPt) < nIns THEN Throw(rs, STACK_UNDERFLOW)
    ELSE LET inPts == popN(rs.stackPt, nIns)
             r == placeArith(rs.state, op, inPts)
         IN [rs EXCEPT !.stackPt = Append(popRest(rs.stackPt, nIns), r.ret[1]),
                       !.state = r.state]

ADD_synth(rs) == synthesizerArith(rs, "ADD", 2)

POP_synth(rs) ==
    IF Len(rs.stackPt) < 1 THEN Throw(rs, STACK_UNDERFLOW)
    ELSE [rs EXCEPT !.stackPt = popRest(rs.stackPt, 1)]

\* a variant of the JUMP handler that records the destination symbol as a
\* public output
JUMP_synth_Recorded(rs) ==
    IF Len(rs.stackPt) < 1 THEN Throw(rs, STACK_UNDERFLOW)
    ELSE [rs EXCEPT !.stackPt = popRest(rs.stackPt, 1),
                    !.state = storePubOut(rs.state, popN(rs.stackPt, 1)[1])]

\* JUMP: const destPt = stackPt.pop(); no circuit generation
JUMP_synth(rs) ==
    IF Len(rs.stackPt) < 1 THEN Throw(rs, STACK_UNDERFLOW)
    ELSE [rs EXCEPT !.stackPt = popRest(rs.stackPt, 1)]

\* JUMPI: the destination and the condition symbol are popped, no circuit
\* generation
JUMPI_synth(rs) ==
    IF Len(rs.stackPt) < 2 THEN Throw(rs, STACK_UNDERFLOW)
    ELSE [rs EXCEPT !.stackPt = popRest(rs.stackPt, 2)]

\* a variant that brings the operand in as a wire of the PRV_IN buffer
PUSH_synth_ViaBuffer(rs) ==
    The({[rs EXCEPT !.stackPt = Append(rs.stackPt, r.ret),
                    !.state = r.state] :
           r \in {addWireToInBuffer(rs.state, loadAuxin(cur.arg, cur.n),
                                    PRV_IN_PLACEMENT_INDEX)}})

PUSH_synth(rs) ==
    [rs EXCEPT !.stackPt = Append(rs.stackPt, loadAuxin(cur.arg, cur.n))]

DUP_synth(rs) ==
    IF Len(rs.stackPt) < 1 THEN Throw(rs, STACK_UNDERFLOW)
    ELSE [rs EXCEPT !.stackPt = dup(rs.stackPt, 1)]

SWAP_synth(rs) ==
    IF Len(rs.stackPt) < 2 THEN Throw(rs, STACK_UNDERFLOW)
    ELSE [rs EXCEPT !.stackPt = swap(rs.stackPt, 1)]

MLOAD_synth(rs) ==
    IF Len(rs.stackPt) < 1 THEN Throw(rs, STACK_UNDERFLOW)
    ELSE LET offset == popN(rs.stackPt, 1)[1].value
         IN IF ~MemoryOffsetOk(offset) THEN Throw(rs, OUT_OF_GAS)
            ELSE LET r == mloadPt(rs.state, rs.memoryPt, ToNat(offset))
                 IN [rs EXCEPT !.stackPt = Append(popRest(rs.stackPt, 1), r.ret),
                               !.state = r.state]

MSTORE_synth(rs) ==
    IF Len(rs.stackPt) < 2 THEN Throw(rs, STACK_UNDERFLOW)
    ELSE LET ov == popN(rs.stackPt, 2)
         IN IF ~MemoryOffsetOk(ov[1].value) THEN Throw(rs, OUT_OF_GAS)
            ELSE [rs EXCEPT !.stackPt = popRest(rs.stackPt, 2),
                            !.memoryPt = MemoryPt_write(rs.memoryPt,
                                             ToNat(ov[1].value), WORD_BYTES,
                                             ov[2])]

SLOAD_synth(rs) ==
    IF Len(rs.stackPt) < 1 THEN Throw(rs, STACK_UNDERFLOW)
    ELSE LET key == popN(rs.stackPt, 1)[1].value
             value == getContractStorage(rs.storage, key)
             r == loadStorage(rs.state, ContractAddress, key, value)
         IN [rs EXCEPT !.stackPt = Append(popRest(rs.stackPt, 1), r.ret),
                       !.state = r.state]

SSTORE_synth(rs) ==
    IF Len(rs.stackPt) < 2 THEN Throw(rs, STACK_UNDERFLOW)
    ELSE LET kv == popN(rs.stackPt, 2)
             key == kv[1].value
         IN [rs EXCEPT !.stackPt = popRest(rs.stackPt, 2),
                       !.storage = putContractStorage(rs.storage, key,
                                                      kv[2].value),
                       !.state = storePrvOut(rs.state, ContractAddress,
                                             kv[2], key)]

(* -------- Interpreter.run() / runStep() -------- *)
\* the handler half has returned rs: keep its effects, or halt on its error
Commit(rs, nextPhase) ==
    /\ stack' = rs.stack
    /\ stackPt' = rs.stackPt
    /\ memory' = rs.memory
    /\ memoryPt' = rs.memoryPt
    /\ storage' = rs.storage
    /\ state' = rs.state
    /\ IF rs.err = ""
       THEN phase' = nextPhase /\ UNCHANGED <<halt, error>>
       ELSE phase' = "Halted" /\ halt' = "Error" /\ error' = rs.err
    /\ UNCHANGED <<finalizer, code, programCounter, cur, ret, calls>>

\* Commit for a handler that also moves the program counter
CommitJump(rs, counter) ==
    /\ stack' = rs.stack
    /\ stackPt' = rs.stackPt
    /\ memory' = rs.memory
    /\ memoryPt' = rs.memoryPt
    /\ storage' = rs.storage
    /\ state' = rs.state
    /\ programCounter' = counter
    /\ IF rs.err = ""
       THEN phase' = "ExecuteSymbolic" /\ UNCHANGED <<halt, error>>
       ELSE phase' = "Halted" /\ halt' = "Error" /\ error' = rs.err
    /\ UNCHANGED <<finalizer, code, cur, ret, calls>>

\* run(): the interpreter starts fetching
Run ==
    /\ phase = "Ready"
    /\ phase' = "FetchOpcode"
    /\ UNCHANGED <<finalizer, code, programCounter, halt, error, stack, stackPt, memory,
                   memoryPt, storage, state, cur, ret, calls>>

\* a variant that starts the next step while the check is still pending
FetchOpcode_NoWait ==
    /\ phase \in {"FetchOpcode", "ConsistencyCheck"}
    /\ IF programCounter > Len(code)
       THEN /\ phase' = "Halted"
            /\ halt' = "Stop"
            /\ UNCHANGED <<programCounter, cur>>
       ELSE /\ cur' = code[programCounter]
            /\ programCounter' = programCounter + 1
            /\ phase' = "ExecuteConcrete"
            /\ UNCHANGED halt
    /\ UNCHANGED <<finalizer, code, error, stack, stackPt, memory, memoryPt, storage,
                   state, ret, calls>>

\* runStep(): look the opcode up and advance the program counter; running
\* off the end of the code stops the transaction
FetchOpcode ==
    /\ phase = "FetchOpcode"
    /\ IF programCounter > Len(code)
       THEN /\ phase' = "Halted"
            /\ halt' = "Stop"
            /\ UNCHANGED <<programCounter, cur>>
       ELSE /\ cur' = code[programCounter]
            /\ programCounter' = programCounter + 1
            /\ phase' = "ExecuteConcrete"
            /\ UNCHANGED halt
    /\ UNCHANGED <<finalizer, code, error, stack, stackPt, memory, memoryPt, storage,
                   state, ret, calls>>

ConcreteADD ==
    /\ phase = "ExecuteConcrete"
    /\ cur.op = "ADD"
    /\ Commit(ADD_evm(RunState), "ExecuteSymbolic")
ConcretePOP ==
    /\ phase = "ExecuteConcrete"
    /\ cur.op = "POP"
    /\ Commit(POP_evm(RunState), "ExecuteSymbolic")
ConcretePUSH ==
    /\ phase = "ExecuteConcrete"
    /\ cur.op = "PUSH"
    /\ Commit(PUSH_evm(RunState), "ExecuteSymbolic")
ConcreteDUP ==
    /\ phase = "ExecuteConcrete"
    /\ cur.op = "DUP"
    /\ Commit(DUP_evm(RunState), "ExecuteSymbolic")
ConcreteSWAP ==
    /\ phase = "ExecuteConcrete"
    /\ cur.op = "SWAP"
    /\ Commit(SWAP_evm(RunState), "ExecuteSymbolic")
ConcreteMLOAD ==
    /\ phase = "ExecuteConcrete"
    /\ cur.op = "MLOAD"
    /\ Commit(MLOAD_evm(RunState), "ExecuteSymbolic")
ConcreteMSTORE ==
    /\ phase = "ExecuteConcrete"
    /\ cur.op = "MSTORE"
    /\ Commit(MSTORE_evm(RunState), "ExecuteSymbolic")
ConcreteKECCAK256 ==
    /\ phase = "ExecuteConcrete"
    /\ cur.op = "KECCAK256"
    /\ \E hash \in HashValues :
          Commit(KECCAK256_evm(RunState, hash), "ExecuteSymbolic")
ConcreteADDRESS ==
    /\ phase = "ExecuteConcrete"
    /\ cur.op = "ADDRESS"
    /\ Commit(ADDRESS_evm(RunState), "ExecuteSymbolic")
ConcreteSLOAD ==
    /\ phase = "ExecuteConcrete"
    /\ cur.op = "SLOAD"
    /\ Commit(SLOAD_evm(RunState), "ExecuteSymbolic")
ConcreteSSTORE ==
    /\ phase = "ExecuteConcrete"
    /\ cur.op = "SSTORE"
    /\ Commit(SSTORE_evm(RunState), "ExecuteSymbolic")

\* a variant that divides natively, where a zero divisor raises an error
ConcreteDIV_Throws ==
    /\ phase = "ExecuteConcrete"
    /\ cur.op = "DIV"
    /\ Commit(LET rs == RunState
              IN IF Len(rs.stack) < 2 THEN Throw(rs, STACK_UNDERFLOW)
                 ELSE LET ab == popN(rs.stack, 2)
                      IN IF ab[2] = ZeroWord
                         THEN Throw(rs, "RangeError: Division by zero")
                         ELSE [rs EXCEPT !.stack =
                                  Append(popRest(rs.stack, 2),
                                         DivModWord(ab[1], ab[2]).q)],
              "ExecuteSymbolic")

\* DIV: [a, b] = popN(2); b === 0 ? 0 : a / b
ConcreteDIV ==
    /\ phase = "ExecuteConcrete"
    /\ cur.op = "DIV"
    /\ Commit(LET rs == RunState
              IN IF Len(rs.stack) < 2 THEN Throw(rs, STACK_UNDERFLOW)
                 ELSE LET ab == popN(rs.stack, 2)
                          r == IF ab[2] = ZeroWord THEN ZeroWord
                               ELSE DivModWord(ab[1], ab[2]).q
                      IN [rs EXCEPT !.stack = Append(popRest(rs.stack, 2), r)],
              "ExecuteSymbolic")

\* MOD: [a, b] = popN(2); b === 0 ? 0 : a % b
ConcreteMOD ==
    /\ phase = "ExecuteConcrete"
    /\ cur.op = "MOD"
    /\ Commit(LET rs == RunState
              IN IF Len(rs.stack) < 2 THEN Throw(rs, STACK_UNDERFLOW)
                 ELSE LET ab == popN(rs.stack, 2)
                          r == IF ab[2] = ZeroWord THEN ZeroWord
                               ELSE DivModWord(ab[1], ab[2]).r
                      IN [rs EXCEPT !.stack = Append(popRest(rs.stack, 2), r)],
              "ExecuteSymbolic")

SymbolicDIV ==
    /\ phase = "ExecuteSymbolic"
    /\ cur.op = "DIV"
    /\ Commit(synthesizerArith(RunState, "DIV", 2), "ConsistencyCheck")
SymbolicMOD ==
    /\ phase = "ExecuteSymbolic"
    /\ cur.op = "MOD"
    /\ Commit(synthesizerArith(RunState, "MOD", 2), "ConsistencyCheck")

\* EXP: [base, exponent] = popN(2); exponent === 0 ? 1 : base === 0 ? 0 :
\* (base ** exponent) % TWO_POW256
ConcreteEXP ==
    /\ phase = "ExecuteConcrete"
    /\ cur.op = "EXP"
    /\ Commit(LET rs == RunState
              IN IF Len(rs.stack) < 2 THEN Throw(rs, STACK_UNDERFLOW)
                 ELSE LET ab == popN(rs.stack, 2)
                          r == IF ab[2] = ZeroWord THEN ToWord(1)
                               ELSE IF ab[1] = ZeroWord THEN ab[1]
                               ELSE PowWord(ab[1], ab[2],
                                            BitLength(ab[2]) - 1, 0,
                                            ToWord(1))
                      IN [rs EXCEPT !.stack = Append(popRest(rs.stack, 2), r)],
              "ExecuteSymbolic")

\* EXP: [base, exponent] = stackPt.popN(2); synthesizerArith('EXP', ...)
\* places the circuit with placeExp and pushes its result
SymbolicEXP ==
    /\ phase = "ExecuteSymbolic"
    /\ cur.op = "EXP"
    /\ \E k \in IF Len(stackPt) < 2 \/ stackPt[Len(stackPt) - 1].value = ZeroWord
                THEN {0}
                ELSE Log2BitLengths(stackPt[Len(stackPt) - 1].value) :
          Commit(LET rs == RunState
                 IN IF Len(rs.stackPt) < 2 THEN Throw(rs, STACK_UNDERFLOW)
                    ELSE The({[rs EXCEPT !.stackPt =
                                            Append(popRest(rs.stackPt, 2),
                                                   r.ret),
                                        !.state = r.state] :
                                r \in {placeExp(rs.state,
                                                popN(rs.stackPt, 2)[1],
                                                popN(rs.stackPt, 2)[2], k)}}),
                 "ConsistencyCheck")

SymbolicADD ==
    /\ phase = "ExecuteSymbolic"
    /\ cur.op = "ADD"
    /\ Commit(ADD_synth(RunState), "ConsistencyCheck")
\* a variant that reports an unsupported opcode as a stack mismatch
UnsupportedOpcode_AsMismatch ==
    /\ phase = "ExecuteConcrete"
    /\ cur.op \in UnsupportedOpcodes
    /\ Commit(Throw(RunState, STACK_MISMATCH), "ExecuteSymbolic")
\* CREATE, REVERT, SELFDESTRUCT: not supported, the transaction ends
UnsupportedOpcode ==
    /\ phase = "ExecuteConcrete"
    /\ cur.op \in UnsupportedOpcodes
    /\ Commit(Throw(RunState, NOT_SUPPORTED), "ExecuteSymbolic")
ConcreteJUMP ==
    /\ phase = "ExecuteConcrete"
    /\ cur.op = "JUMP"
    /\ CommitJump(JUMP_evm(RunState), jumpTarget(RunState, FALSE))
SymbolicJUMP ==
    /\ phase = "ExecuteSymbolic"
    /\ cur.op = "JUMP"
    /\ Commit(JUMP_synth(RunState), "ConsistencyCheck")
ConcreteJUMPI ==
    /\ phase = "ExecuteConcrete"
    /\ cur.op = "JUMPI"
    /\ CommitJump(JUMPI_evm(RunState), jumpTarget(RunState, TRUE))
SymbolicJUMPI ==
    /\ phase = "ExecuteSymbolic"
    /\ cur.op = "JUMPI"
    /\ Commit(JUMPI_synth(RunState), "ConsistencyCheck")
\* JUMPDEST marks a destination and does nothing else
ConcreteJUMPDEST ==
    /\ phase = "ExecuteConcrete"
    /\ cur.op = "JUMPDEST"
    /\ Commit(RunState, "ExecuteSymbolic")
SymbolicJUMPDEST ==
    /\ phase = "ExecuteSymbolic"
    /\ cur.op = "JUMPDEST"
    /\ Commit(RunState, "ConsistencyCheck")
SymbolicPOP ==
    /\ phase = "ExecuteSymbolic"
    /\ cur.op = "POP"
    /\ Commit(POP_synth(RunState), "ConsistencyCheck")
SymbolicPUSH ==
    /\ phase = "ExecuteSymbolic"
    /\ cur.op = "PUSH"
    /\ Commit(PUSH_synth(RunState), "ConsistencyCheck")
SymbolicDUP ==
    /\ phase = "ExecuteSymbolic"
    /\ cur.op = "DUP"
    /\ Commit(DUP_synth(RunState), "ConsistencyCheck")
SymbolicSWAP ==
    /\ phase = "ExecuteSymbolic"
    /\ cur.op = "SWAP"
    /\ Commit(SWAP_synth(RunState), "ConsistencyCheck")
SymbolicMLOAD ==
    /\ phase = "ExecuteSymbolic"
    /\ cur.op = "MLOAD"
    /\ Commit(MLOAD_synth(RunState), "ConsistencyCheck")
SymbolicMSTORE ==
    /\ phase = "ExecuteSymbolic"
    /\ cur.op = "MSTORE"
    /\ Commit(MSTORE_synth(RunState), "ConsistencyCheck")
SymbolicKECCAK256 ==
    /\ phase = "ExecuteSymbolic"
    /\ cur.op = "KECCAK256"
    /\ Commit(KECCAK256_synth(RunState), "ConsistencyCheck")
SymbolicADDRESS ==
    /\ phase = "ExecuteSymbolic"
    /\ cur.op = "ADDRESS"
    /\ Commit(ADDRESS_synth(RunState), "ConsistencyCheck")
SymbolicSLOAD ==
    /\ phase = "ExecuteSymbolic"
    /\ cur.op = "SLOAD"
    /\ Commit(SLOAD_synth(RunState), "ConsistencyCheck")
SymbolicSSTORE ==
    /\ phase = "ExecuteSymbolic"
    /\ cur.op = "SSTORE"
    /\ Commit(SSTORE_synth(RunState), "ConsistencyCheck")

\* stackVals.length === stackPtVals.length &&
\* stackVals.every((val, index) => val === stackPtVals[index])
stacksConsistent_LengthOnly(stackVals, stackPtVals) ==
    Len(stackVals) = Len(stackPtVals)

stacksConsistent(stackVals, stackPtVals) ==
    /\ Len(stackVals) = Len(stackPtVals)
    /\ \A index \in 1..Len(stackVals) : stackVals[index] = stackPtVals[index]

\* a variant of the check that logs the mismatch and goes on
ConsistencyCheck_LogOnly ==
    /\ phase = "ConsistencyCheck"
    /\ phase' = "FetchOpcode"
    /\ UNCHANGED <<finalizer, code, programCounter, halt, error, stack, stackPt, memory,
                   memoryPt, storage, state, cur, ret, calls>>

\* the end of runStep(): compare the two stacks, throw on a mismatch
ConsistencyCheck ==
    /\ phase = "ConsistencyCheck"
    /\ LET stackVals == stack
           stackPtVals == [i \in 1..Len(stackPt) |-> stackPt[i].value]
       IN IF stacksConsistent(stackVals, stackPtVals)
          THEN phase' = "FetchOpcode" /\ UNCHANGED <<halt, error>>
          ELSE phase' = "Halted" /\ halt' = "Error" /\ error' = STACK_MISMATCH
    /\ UNCHANGED <<finalizer, code, programCounter, stack, stackPt, memory, memoryPt,
                   storage, state, cur, ret, calls>>

Next ==
    \/ Run
    \/ FetchOpcode
    \/ ConcreteADD \/ ConcretePOP \/ ConcretePUSH \/ ConcreteDUP
    \/ ConcreteSWAP \/ ConcreteMLOAD \/ ConcreteMSTORE \/ ConcreteSLOAD
    \/ ConcreteSSTORE \/ ConcreteDIV \/ ConcreteMOD
    \/ SymbolicDIV \/ SymbolicMOD
    \/ ConcreteEXP \/ SymbolicEXP
    \/ ConcreteJUMP \/ SymbolicJUMP \/ ConcreteJUMPI \/ SymbolicJUMPI
    \/ ConcreteJUMPDEST \/ SymbolicJUMPDEST
    \/ UnsupportedOpcode
    \/ ConcreteADDRESS \/ SymbolicADDRESS
    \/ ConcreteKECCAK256 \/ SymbolicKECCAK256
    \/ SymbolicADD \/ SymbolicPOP \/ SymbolicPUSH \/ SymbolicDUP
    \/ SymbolicSWAP \/ SymbolicMLOAD \/ SymbolicMSTORE \/ SymbolicSLOAD
    \/ SymbolicSSTORE
    \/ ConsistencyCheck

Spec == Init /\ [][Next]_vars

(***************************************************************************)
(* Transaction run followed by Finalizer.exec(): the driver runs the       *)
(* transaction to its end and only then calls exec() on the Synthesizer's  *)
(* state; an error thrown by the run leaves the driver before that call    *)
(***************************************************************************)
InitExec ==
    /\ InitCommon
    /\ code \in ExecPrograms
    /\ storage \in StorageInits \cup {MapSet(<< >>, ToWord(0), WordX)}

\* the values of the wires of one placement, outputs first
wireValues(p) ==
    [i \in 1..Len(p.outPts) |-> p.outPts[i].value]
    \o [i \in 1..Len(p.inPts) |-> p.inPts[i].value]

\* the values of the output wires of the buffers ids, in the order of ids
RECURSIVE bufferValues(_, _)
bufferValues(placements, ids) ==
    IF ids = << >> THEN << >>
    ELSE [i \in 1..Len(placements[Head(ids)].outPts) |->
             placements[Head(ids)].outPts[i].value]
         \o bufferValues(placements, Tail(ids))

\* the permutation of the placements given to new Permutation()
permutationOf(placements) ==
    correctPermutation(buildPermGroup(placements, state.placementIndex,
                                      state.placementIndex))

\* a finalizer step leaves the interpreter and the Synthesizer state alone
FinalizerStep(op) ==
    /\ cur' = [op |-> op, arg |-> 0]
    /\ UNCHANGED <<code, programCounter, phase, halt, error, stack, stackPt,
                   memory, memoryPt, storage, state, ret, calls>>

\* a variant that starts as soon as the interpreter has halted, whatever
\* the reason
ExecRefactor_AfterError ==
    /\ phase = "Halted"
    /\ finalizer.step = "refactor"
    /\ finalizer' = [finalizer EXCEPT
                        !.step = "newPermutation",
                        !.refactored = refactor(state.placements)]
    /\ FinalizerStep("refactor")

\* exec() 1: new PlacementRefactor(this.state).refactor()
ExecRefactor ==
    /\ phase = "Halted"
    /\ halt = "Stop"
    /\ finalizer.step = "refactor"
    /\ finalizer' = [finalizer EXCEPT
                        !.step = "newPermutation",
                        !.refactored = refactor(state.placements)]
    /\ FinalizerStep("refactor")

\* a variant that builds the permutation from the placements as the
\* transaction left them
ExecNewPermutation_Raw ==
    /\ finalizer.step = "newPermutation"
    /\ finalizer' = [finalizer EXCEPT
                        !.step = "outputPlacementVariables",
                        !.permutation = permutationOf(state.placements)]
    /\ FinalizerStep("Permutation")

\* exec() 2: new Permutation(refactored, _path)
ExecNewPermutation ==
    /\ finalizer.step = "newPermutation"
    /\ finalizer' = [finalizer EXCEPT
                        !.step = "outputPlacementVariables",
                        !.permutation = permutationOf(finalizer.refactored)]
    /\ FinalizerStep("Permutation")

\* a variant that goes on after the witness calculator rejected
ExecOutputPlacementVariables_GoOn ==
    /\ finalizer.step = "outputPlacementVariables"
    /\ \E ok \in BOOLEAN :
          finalizer' =
              IF ok
              THEN [finalizer EXCEPT
                       !.step = "outputPermutation",
                       !.placementVariables =
                           [id \in DOMAIN finalizer.refactored |->
                               wireValues(finalizer.refactored[id])],
                       !.files = @ \cup {"placementVariables.json"}]
              ELSE [finalizer EXCEPT !.step = "outputPermutation"]
    /\ FinalizerStep("outputPlacementVariables")

\* exec() 2: await permutation.outputPlacementVariables(refactored, _path);
\* the witness calculator of a subcircuit may reject, and the rejection
\* leaves exec()
ExecOutputPlacementVariables ==
    /\ finalizer.step = "outputPlacementVariables"
    /\ \E ok \in BOOLEAN :
          finalizer' =
              IF ok
              THEN [finalizer EXCEPT
                       !.step = "outputPermutation",
                       !.placementVariables =
                           [id \in DOMAIN finalizer.refactored |->
                               wireValues(finalizer.refactored[id])],
                       !.files = @ \cup {"placementVariables.json"}]
              ELSE [finalizer EXCEPT !.step = "failed"]
    /\ FinalizerStep("outputPlacementVariables")

\* exec() 3: permutation.outputPermutation(_path)
ExecOutputPermutation ==
    /\ finalizer.step = "outputPermutation"
    /\ finalizer' = [finalizer EXCEPT
                        !.step = "outputInstance",
                        !.files = @ \cup {"permutation.json"}]
    /\ FinalizerStep("outputPermutation")

\* a variant that puts the private output buffer into the public array
ExecOutputInstance_Leaky ==
    /\ finalizer.step = "outputInstance"
    /\ finalizer' =
          [finalizer EXCEPT
              !.step = "done",
              !.instance =
                  [a_pub |-> bufferValues(finalizer.refactored,
                                          <<PUB_IN_PLACEMENT_INDEX,
                                            PRV_OUT_PLACEMENT_INDEX>>),
                   a_prv |-> bufferValues(finalizer.refactored,
                                          <<PRV_IN_PLACEMENT_INDEX,
                                            PRV_OUT_PLACEMENT_INDEX>>)],
              !.files = @ \cup {"instance.json"}]
    /\ FinalizerStep("outputInstance")

\* exec() 3: outputInstance(_path), then exec() returns; a_pub is read
\* from the public buffers and a_prv from the private ones
ExecOutputInstance ==
    /\ finalizer.step = "outputInstance"
    /\ finalizer' =
          [finalizer EXCEPT
              !.step = "done",
              !.instance =
                  [a_pub |-> bufferValues(finalizer.refactored,
                                          <<PUB_IN_PLACEMENT_INDEX,
                                            PUB_OUT_PLACEMENT_INDEX>>),
                   a_prv |-> bufferValues(finalizer.refactored,
                                          <<PRV_IN_PLACEMENT_INDEX,
                                            PRV_OUT_PLACEMENT_INDEX>>)],
              !.files = @ \cup {"instance.json"}]
    /\ FinalizerStep("outputInstance")

\* the caller gives the transaction up while it runs: run() ends with an
\* error and the driver never comes to the Finalizer
CANCELLED == "Synthesizer: cancelled"
Cancel ==
    /\ phase \in {"FetchOpcode", "ExecuteConcrete", "ExecuteSymbolic",
                  "ConsistencyCheck"}
    /\ phase' = "Halted"
    /\ halt' = "Error"
    /\ error' = CANCELLED
    /\ UNCHANGED <<finalizer, code, programCounter, stack, stackPt, memory,
                   memoryPt, storage, state, cur, ret, calls>>

NextExec ==
    \/ Next
    \/ Cancel
    \/ ExecRefactor
    \/ ExecNewPermutation
    \/ ExecOutputPlacementVariables
    \/ ExecOutputPermutation
    \/ ExecOutputInstance

SpecExec == InitExec /\ [][NextExec]_vars

\* the two stacks mirror each other: same height, same value at each slot
StacksAgree ==
    /\ Len(stackPt) = Len(stack)
    /\ \A i \in 1..Len(stack) : stackPt[i].value = stack[i]

\* C1: after an opcode step that completed without error, the symbolic
\* and the concrete stack have the same length and each symbol's value
\* equals the concrete value at the same position.
StacksAgreeAfterStep ==
    (programCounter > 1 /\ (phase = "FetchOpcode" \/ halt = "Stop"))
        => StacksAgree

\* a step that placed a subcircuit has completed with a non-empty stack
StacksAgreeWitness ==
    /\ phase = "FetchOpcode"
    /\ cur.op = "ADD"
    /\ Len(stack) = 1
    /\ stackPt[1].source >= INITIAL_PLACEMENT_INDEX
    /\ stackPt[1].value = stack[1]

DivOps == {"DIV", "MOD"}
ZeroDivisor(s) == Len(s) >= 2 /\ s[Len(s) - 1] = ZeroWord

StrictlySequential ==
    [][/\ phase = "Ready" => phase' = "FetchOpcode"
       /\ phase = "FetchOpcode" =>
             \/ phase' = "ExecuteConcrete" /\ programCounter' = programCounter + 1
                /\ cur' = code[programCounter]
             \/ phase' = "Halted" /\ halt' = "Stop"
       /\ phase = "ExecuteConcrete" =>
             \/ phase' = "ExecuteSymbolic"
             \/ phase' = "Halted" /\ halt' = "Error"
       /\ phase = "ExecuteSymbolic" =>
             \/ phase' = "ConsistencyCheck"
             \/ phase' = "Halted" /\ halt' = "Error"
       /\ phase = "ConsistencyCheck" =>
             \/ phase' = "FetchOpcode" /\ StacksAgree
             \/ phase' = "Halted" /\ halt' = "Error"
       /\ phase = "Halted" => UNCHANGED vars
       /\ phase # "FetchOpcode" => UNCHANGED cur
       /\ phase \notin {"FetchOpcode", "ExecuteConcrete"}
             => UNCHANGED programCounter
       /\ phase # "ExecuteConcrete" => UNCHANGED <<stack, memory>>
       /\ phase # "ExecuteSymbolic" => UNCHANGED <<stackPt, memoryPt, state>>
       /\ UNCHANGED code]_vars

\* three opcodes, one of them placing a subcircuit, ran to the end
StrictlySequentialWitness ==
    /\ phase = "Halted"
    /\ halt = "Stop"
    /\ Len(code) = 3
    /\ programCounter = 4
    /\ state.placementIndex > INITIAL_PLACEMENT_INDEX
    /\ StacksAgree
\* C15: the placements form a DAG: an input symbol whose source is a
\* placement id refers to a buffer placement or to a placement registered
\* earlier under a smaller id, and to a wire that placement has among its
\* outPts; every other input is a constant that no placement produced.
IsWireOf(placements, pt) ==
    /\ pt.source \in DOMAIN placements
    /\ \E k \in 1..Len(placements[pt.source].outPts) :
          /\ placements[pt.source].outPts[k].source = pt.source
          /\ placements[pt.source].outPts[k].wireIndex = pt.wireIndex

PlacementsFormDAG ==
    \A id \in DOMAIN state.placements :
        \A k \in 1..Len(state.placements[id].inPts) :
            LET pt == state.placements[id].inPts[k]
            IN IF pt.source >= 0
               THEN /\ pt.source \in BufferIds \/ pt.source < id
                    /\ IsWireOf(state.placements, pt)
               ELSE pt.source \in {LITERAL, AUXIN}
\* C16: a load that misses the cache mints exactly one new symbol, in
\* PRV_IN (2) for storage, balances and nonces and in PUB_IN (0) for
\* environment, block and calldata values, returns it and records it in
\* the cache under (address, kind, key); no placement is registered and
\* the other buffers and the other cache are left alone.
MintsOneIn(bufferId, value) ==
    /\ state'.placementIndex = state.placementIndex
    /\ DOMAIN state'.placements = DOMAIN state.placements
    /\ \A id \in DOMAIN state.placements \ {bufferId} :
          state'.placements[id] = state.placements[id]
    /\ Len(state'.placements[bufferId].outPts)
          = Len(state.placements[bufferId].outPts) + 1
    /\ Len(state'.placements[bufferId].inPts)
          = Len(state.placements[bufferId].inPts) + 1
    /\ state'.placements[bufferId].outPts
          = Append(state.placements[bufferId].outPts, ret')
    /\ ret'.source = bufferId
    /\ ret'.wireIndex = Len(state.placements[bufferId].outPts)
    /\ ret'.value = value
    /\ \A k \in 1..Len(state.placements[bufferId].outPts) :
          state.placements[bufferId].outPts[k] # ret'

ColdLoadMintsOne ==
    [][/\ (/\ cur'.op = "loadStorage"
           /\ <<ContractAddress, cur'.arg>> \notin DOMAIN state.storagePt)
          => /\ MintsOneIn(PRV_IN_PLACEMENT_INDEX,
                           getContractStorage(storage, cur'.arg))
             /\ state'.storagePt = MapSet(state.storagePt,
                                          <<ContractAddress, cur'.arg>>, ret')
             /\ state'.envInf = state.envInf
       /\ (/\ cur'.op = "loadEnvInf"
           /\ <<ContractAddress, cur'.arg[1], cur'.arg[2]>>
                 \notin DOMAIN state.envInf)
          => /\ MintsOneIn(IF cur'.arg[1] \in {"Balance", "Nonce"}
                           THEN PRV_IN_PLACEMENT_INDEX
                           ELSE PUB_IN_PLACEMENT_INDEX, Aux5.value)
             /\ state'.envInf =
                   MapSet(state.envInf,
                          <<ContractAddress, cur'.arg[1], cur'.arg[2]>>, ret')
             /\ state'.storagePt = state.storagePt]_vars

\* a storage slot, a balance and a calldata word have been loaded cold:
\* two wires in PRV_IN, one in PUB_IN
ColdLoadMintsOneWitness ==
    /\ calls = 3
    /\ cur.op = "loadEnvInf"
    /\ cur.arg[1] = "Calldata"
    /\ ret.source = PUB_IN_PLACEMENT_INDEX
    /\ Len(state.placements[PRV_IN_PLACEMENT_INDEX].outPts) = 2
    /\ Len(state.placements[PUB_IN_PLACEMENT_INDEX].outPts) = 1
    /\ DOMAIN state.storagePt # {}
    /\ <<ContractAddress, "Balance", 0>> \in DOMAIN state.envInf
\* C17: addWireToOutBuffer on buffer 1 (PUB_OUT) or 3 (PRV_OUT) appends
\* the given symbol to the inPts of that buffer and its observed value to
\* the outPts, and creates no symbol: the placement counter, the input
\* buffers, the caches and every other placement stay as they were.
OutBufferOfCall(call) ==
    IF call.op = "storePrvOut" THEN PRV_OUT_PLACEMENT_INDEX ELSE call.arg

AddWireToOutBufferOnlyAppends ==
    [][cur'.op \in {"addWireToOutBuffer", "storePrvOut"} =>
          LET b == OutBufferOfCall(cur')
              old == state.placements[b]
              new == state'.placements[b]
          IN /\ b \in {PUB_OUT_PLACEMENT_INDEX, PRV_OUT_PLACEMENT_INDEX}
             /\ new.inPts = Append(old.inPts, ret)
             /\ Len(new.outPts) = Len(old.outPts) + 1
             /\ SubSeq(new.outPts, 1, Len(old.outPts)) = old.outPts
             /\ new.outPts[Len(new.outPts)].value = ret.value
             /\ new.name = old.name
             /\ ret' = ret
             /\ state'.placementIndex = state.placementIndex
             /\ state'.storagePt = state.storagePt
             /\ state'.envInf = state.envInf
             /\ DOMAIN state'.placements = DOMAIN state.placements
             /\ \A id \in DOMAIN state.placements \ {b} :
                   state'.placements[id] = state.placements[id]]_vars

\* the result of an ADD placement went to PUB_OUT and then to PRV_OUT
AddWireToOutBufferOnlyAppendsWitness ==
    /\ calls = 3
    /\ cur.op = "addWireToOutBuffer"
    /\ cur.arg = PRV_OUT_PLACEMENT_INDEX
    /\ ret.source = INITIAL_PLACEMENT_INDEX
    /\ state.placementIndex = INITIAL_PLACEMENT_INDEX + 2
    /\ state.placements[PUB_OUT_PLACEMENT_INDEX].inPts = <<ret>>
    /\ state.placements[PRV_OUT_PLACEMENT_INDEX].inPts = <<ret>>
\* C18: a memory read of length L > 0 at offset o is resolved in
\* ceil(L / 32) getDataAlias calls, the i-th (from 0) on the window at
\* o + 32 * i of size min(32, L - 32 * i); only the last window may be
\* shorter than a word and the windows cover [o, o + L) exactly once.
LongReads == {"KECCAK256", "RETURN"}

WindowedReads ==
    cur.op \in LongReads =>
        LET o == cur.arg[1]
            L == cur.arg[2]
            w == cur.aliasCalls
            n == (L + 31) \div 32
        IN /\ Len(w) = n
           /\ \A i \in 0..(n - 1) :
                 /\ w[i + 1].offset = o + 32 * i
                 /\ w[i + 1].size = IF L - 32 * i < 32 THEN L - 32 * i ELSE 32
                 /\ i < n - 1 => w[i + 1].size = 32
           /\ \A a \in o..(o + L - 1) :
                 Cardinality({i \in 1..Len(w) :
                                a \in w[i].offset..(w[i].offset + w[i].size - 1)})
                   = 1
           /\ \A i \in 1..Len(w) :
                 w[i].size > 0 /\ w[i].offset >= o
                               /\ w[i].offset + w[i].size <= o + L
\* the memory after MSTORE(0x10, X), MSTORE(0x00, Y) and one MLOAD, X and Y
\* being the symbols written
ScenarioTwo(offset) ==
    /\ calls = 3
    /\ cur = [op |-> "read", arg |-> offset]
    /\ memoryPt.timeStamp = 2
    /\ memoryPt.storePt[0].memOffset = 16
    /\ memoryPt.storePt[1].memOffset = 0
ScenarioX == memoryPt.storePt[0].dataPt
ScenarioY == memoryPt.storePt[1].dataPt
NewPlacements == DOMAIN state.placements \ BufferIds
PlacementsOf(usage) ==
    {id \in NewPlacements : state.placements[id].usage = usage}

IdAt(S, i) == CHOOSE x \in S : Cardinality({y \in S : y < x}) = i - 1

\* the placements an EXP step has registered, given the ids new, the
\* placements pl after the step, the base symbol aPt and the exponent
\* symbol bPt: DecToBit first, then bit-length many SubEXP in a chain
IsExpChain(pl, new, aPt, bPt) ==
    LET k == BitLength(bPt.value)
        dec == pl[IdAt(new, 1)]
        sub(i) == pl[IdAt(new, i + 1)]
    IN /\ Cardinality(new) = k + 1
       /\ dec.usage = "DecToBit"
       /\ dec.inPts[Len(dec.inPts)] = bPt
       /\ \A i \in 1..k :
             /\ sub(i).usage = "SubEXP"
             /\ Len(sub(i).inPts) = 4
             /\ Len(sub(i).outPts) = 2
             /\ IF i = 1
                THEN /\ sub(i).inPts[2].value = ToWord(1)
                     /\ sub(i).inPts[3] = aPt
                ELSE /\ sub(i).inPts[2] = sub(i - 1).outPts[1]
                     /\ sub(i).inPts[3] = sub(i - 1).outPts[2]
             /\ sub(i).inPts[4] = dec.outPts[8 * WORD_BYTES - i + 1]
             /\ sub(i).inPts[4].value = ToWord(Bit(bPt.value, i - 1))

\* C20: an EXP whose exponent is not zero registers exactly one DecToBit
\* placement and after it exactly as many SubEXP placements as the exponent
\* has bits; the first SubEXP takes the constant 1 and the base, every
\* later one the cumulative result and the power the one before it put
\* out, and the i-th takes the i-th least significant bit of the exponent
ExpRegistersChain ==
    [][(/\ phase = "ExecuteSymbolic"
        /\ cur.op = "EXP"
        /\ Len(stackPt) >= 2
        /\ stackPt[Len(stackPt) - 1].value # ZeroWord
        /\ phase' = "ConsistencyCheck")
       => IsExpChain(state'.placements,
                     DOMAIN state'.placements \ DOMAIN state.placements,
                     stackPt[Len(stackPt)], stackPt[Len(stackPt) - 1])]_vars


\* C21: JUMP and JUMPI never emit placements: while one of them is
\* executed only the program counter and the two stacks change; the
\* placements with the four buffers, the next placement id, the caches
\* and the symbolic memory stay as they are, and so do the concrete memory
\* and the storage.
JumpsEmitNothing ==
    [][(/\ cur.op \in {"JUMP", "JUMPI"}
        /\ phase \in {"ExecuteConcrete", "ExecuteSymbolic",
                      "ConsistencyCheck"})
       => UNCHANGED <<state, memoryPt, memory, storage, code, finalizer>>]_vars

\* a JUMP was taken after an SLOAD and an MSTORE had filled a buffer, the
\* cache and the symbolic memory, and its symbolic half has run
JumpsEmitNothingWitness ==
    /\ phase = "ConsistencyCheck"
    /\ cur.op = "JUMP"
    /\ programCounter = 8
    /\ Len(stackPt) = 1
    /\ state.placements[PRV_IN_PLACEMENT_INDEX].outPts # << >>
    /\ memoryPt.storePt # << >>

(***************************************************************************)
(* Several transactions: createEVM() makes the EVM with its Synthesizer,   *)
(* EVM.runCall() makes an Interpreter with a new RunState for each         *)
(* transaction and hands it the Synthesizer of the EVM                     *)
(***************************************************************************)
\* transactions run one after another
MaxTransactions == 2
TxPrograms ==
    {<<Push1(5), Push1(10), Op("ADD")>>,
     <<Push1(0), Op("SLOAD"), Push1(5), Op("ADD")>>,
     <<Push1(0), Op("SLOAD")>>,
     <<Push1(16)>>}

InitCalls ==
    /\ InitCommon
    /\ code = << >>
    /\ storage \in StorageInits

\* a variant that gives every transaction a Synthesizer of its own
RunCall_NewSynthesizer ==
    /\ phase \in {"Ready", "Halted"}
    /\ calls < MaxTransactions
    /\ code' \in TxPrograms
    /\ programCounter' = 1
    /\ phase' = "FetchOpcode"
    /\ halt' = "None"
    /\ error' = ""
    /\ stack' = << >>
    /\ stackPt' = << >>
    /\ memory' = Memory_new
    /\ memoryPt' = MemoryPt_new
    /\ state' = StateManager_new
    /\ cur' = NoCall
    /\ calls' = calls + 1
    /\ UNCHANGED <<storage, ret, finalizer>>

\* runCall(opts): new Interpreter(this, ..., this.synthesizer), whose
\* RunState has a new stack, stackPt, memory and memoryPt, then
\* interpreter.run(message)
RunCall ==
    /\ phase \in {"Ready", "Halted"}
    /\ calls < MaxTransactions
    /\ code' \in TxPrograms
    /\ programCounter' = 1
    /\ phase' = "FetchOpcode"
    /\ halt' = "None"
    /\ error' = ""
    /\ stack' = << >>
    /\ stackPt' = << >>
    /\ memory' = Memory_new
    /\ memoryPt' = MemoryPt_new
    /\ cur' = NoCall
    /\ calls' = calls + 1
    /\ UNCHANGED <<storage, state, ret, finalizer>>

\* createEVM(): a new EVM, and with it a new Synthesizer and StateManager
CreateEVM ==
    /\ phase = "Halted"
    /\ calls < MaxTransactions
    /\ programCounter' = 1
    /\ phase' = "Ready"
    /\ halt' = "None"
    /\ error' = ""
    /\ stack' = << >>
    /\ stackPt' = << >>
    /\ memory' = Memory_new
    /\ memoryPt' = MemoryPt_new
    /\ state' = StateManager_new
    /\ cur' = NoCall
    /\ UNCHANGED <<code, storage, ret, calls, finalizer>>

NextCalls ==
    \/ RunCall
    \/ CreateEVM
    \/ FetchOpcode
    \/ ConcretePUSH \/ SymbolicPUSH
    \/ ConcreteADD \/ SymbolicADD
    \/ ConcreteSLOAD \/ SymbolicSLOAD
    \/ ConsistencyCheck

SpecCalls == InitCalls /\ [][NextCalls]_vars

\* the position of the Finalizer inside exec()
StepRank ==
    [s \in {"refactor", "newPermutation", "outputPlacementVariables",
            "outputPermutation", "outputInstance", "done", "failed"} |->
        CASE s = "refactor" -> 0
          [] s = "newPermutation" -> 1
          [] s = "outputPlacementVariables" -> 2
          [] s = "outputPermutation" -> 3
          [] s = "outputInstance" -> 4
          [] OTHER -> 5]

\* what the Finalizer holds is the refactoring, the permutation and the
\* witness of the placements of the transaction that ran to its end
FinalizerSeesCompleteRun ==
    /\ (finalizer.step # "refactor") =>
           (/\ phase = "Halted"
            /\ halt = "Stop"
            /\ finalizer.refactored = refactor(state.placements))
    /\ (StepRank[finalizer.step] >= 2) =>
           (finalizer.permutation = permutationOf(refactor(state.placements)))
    /\ (finalizer.placementVariables # << >>) =>
           (/\ StepRank[finalizer.step] >= 3
            /\ finalizer.placementVariables =
                  [id \in DOMAIN state.placements |->
                      wireValues(refactor(state.placements)[id])])

\* exec() moves forward one position at a time, and the placements do not
\* change once it has started
FinalizerMovesForward ==
    /\ (finalizer.step' # finalizer.step) =>
           (\/ StepRank[finalizer.step'] = StepRank[finalizer.step] + 1
            \/ (finalizer.step = "outputPlacementVariables"
                   /\ finalizer.step' = "failed"))
    /\ (finalizer.step # "refactor") => UNCHANGED state

\* C22: the Finalizer works only once the transaction has run to its end
\* without an error, goes through refactoring, permutation and witness in
\* this order and through each once, and the permutation and the witness
\* it holds are those of the complete refactored placements of the
\* finished transaction
FinalizerRunsOnceInOrder ==
    []FinalizerSeesCompleteRun /\ [][FinalizerMovesForward]_vars
FinalizerRunsOnceInOrderWitness ==
    /\ finalizer.step = "done"
    /\ finalizer.files = {"placementVariables.json", "permutation.json",
                          "instance.json"}
    /\ finalizer.permutation # << >>
    /\ finalizer.permutation # permutationOf(state.placements)
    /\ finalizer.refactored # state.placements
\* the transaction ended in a fatal condition or was given up
Fatal == halt = "Error" \/ finalizer.step = "failed"

FatalMismatch ==
    halt = "Error" /\ error = STACK_MISMATCH /\ stackPt # << >>
FatalUnsupported ==
    /\ halt = "Error" /\ error = NOT_SUPPORTED
    /\ state.placementIndex > INITIAL_PLACEMENT_INDEX
FatalCancelled ==
    /\ halt = "Error" /\ error = CANCELLED
    /\ state.placementIndex > INITIAL_PLACEMENT_INDEX
\* C24: reaching CREATE, REVERT or SELFDESTRUCT halts the transaction in
\* Error with the not-supported message, without touching the stacks or
\* the placements, and a halted transaction carries that message exactly
\* when it stopped at one of these opcodes, so it is never taken for a
\* stack mismatch
UnsupportedOpcodeHalts ==
    /\ [](halt = "Error" =>
             (error = NOT_SUPPORTED <=> cur.op \in UnsupportedOpcodes))
    /\ [][(phase = "ExecuteConcrete" /\ cur.op \in UnsupportedOpcodes) =>
             (/\ phase' = "Halted"
              /\ halt' = "Error"
              /\ error' = NOT_SUPPORTED
              /\ error' # STACK_MISMATCH
              /\ UNCHANGED <<state, stack, stackPt, memory, memoryPt>>)]_vars
UnsupportedOpcodeHaltsWitness ==
    /\ phase = "Halted"
    /\ error = NOT_SUPPORTED
    /\ cur.op = "REVERT"
    /\ Len(stackPt) = 2
    /\ state.placementIndex > INITIAL_PLACEMENT_INDEX
\* the wire at <<row, col>>: outputs first, then inputs
wireAt(placements, rc) ==
    (placements[rc[2]].outPts \o placements[rc[2]].inPts)[rc[1] + 1]
\* the input wires that consume output k of placement id
consumerSet(placements, id, k) ==
    {<<Len(placements[c].outPts) + i - 1, c>> :
        <<c, i>> \in {x \in UNION {{<<c, i>> : i \in DOMAIN placements[c].inPts} :
                                      c \in DOMAIN placements} :
                        LET pt == placements[x[1]].inPts[x[2]]
                            out == placements[id].outPts[k]
                        IN /\ pt.source = out.source
                           /\ pt.wireIndex = out.wireIndex}}
\* the wires a cycle names, and the wires it leads to
cycleWires(cycle) == {<<cycle[i].row, cycle[i].col>> : i \in DOMAIN cycle}
cycleTargets(cycle) == {<<cycle[i].X, cycle[i].Y>> : i \in DOMAIN cycle}
\* following the entries from the first wire comes by every wire of the
\* cycle
RECURSIVE walk(_, _, _)
walk(cycle, from, n) ==
    IF n = 0 THEN {}
    ELSE LET e == CHOOSE i \in DOMAIN cycle :
                      <<cycle[i].row, cycle[i].col>> = from
         IN {from} \cup walk(cycle, <<cycle[e].X, cycle[e].Y>>, n - 1)
Closed(cycle) ==
    /\ Cardinality(cycleWires(cycle)) = Len(cycle)
    /\ cycleTargets(cycle) = cycleWires(cycle)
    /\ walk(cycle, <<cycle[1].row, cycle[1].col>>, Len(cycle))
          = cycleWires(cycle)

WideWiresSplit(orig, new) ==
    \A i \in DOMAIN orig :
        ~FitsLimb(orig[i].value) =>
            \E n \in 1..(Len(new) - 1) :
                /\ new[n].value = AndWord(orig[i].value, ShrWord(OnesWord, 128))
                /\ new[n + 1].value = ShrWord(orig[i].value, 128)
                /\ new[n].source = orig[i].source
                /\ new[n + 1].source = orig[i].source

BufferOutValues(placements, id) ==
    {placements[id].outPts[i].value : i \in DOMAIN placements[id].outPts}
PublicBuffers == {PUB_IN_PLACEMENT_INDEX, PUB_OUT_PLACEMENT_INDEX}
\* the step of the Synthesizer half of SLOAD or SSTORE
StorageStep ==
    phase = "ExecuteSymbolic" /\ cur.op \in {"SLOAD", "SSTORE"}
\* the buffer placements other than keep are as they were
OtherBuffersUnchanged(keep) ==
    \A id \in BufferIds \ keep :
        state'.placements[id] = state.placements[id]
\* the public array holds the wires of the buffers 0 and 1 and nothing
\* else
PublicArrayFromPublicBuffers ==
    (finalizer.step = "done") =>
        /\ \A v \in {finalizer.instance.a_pub[i] :
                         i \in DOMAIN finalizer.instance.a_pub} :
              \E id \in PublicBuffers :
                  v \in BufferOutValues(finalizer.refactored, id)
        /\ Len(finalizer.instance.a_pub)
              = Len(finalizer.refactored[PUB_IN_PLACEMENT_INDEX].outPts)
                + Len(finalizer.refactored[PUB_OUT_PLACEMENT_INDEX].outPts)

\* C27: SLOAD changes no buffer other than PRV_IN and SSTORE none other
\* than PRV_OUT, so neither adds a wire to PUB_IN or PUB_OUT, and the
\* public array of the instance holds the wires of the buffers 0 and 1
\* only
StorageStaysPrivate ==
    /\ [][StorageStep =>
             IF cur.op = "SLOAD"
             THEN OtherBuffersUnchanged({PRV_IN_PLACEMENT_INDEX})
             ELSE OtherBuffersUnchanged({PRV_OUT_PLACEMENT_INDEX})]_vars
    /\ []PublicArrayFromPublicBuffers
\* a transaction that read its address and a 32-byte storage word and
\* stored their sum is finalized: the public array is the two limbs of
\* the address
StorageStaysPrivateWitness ==
    /\ finalizer.step = "done"
    /\ finalizer.instance.a_pub =
          <<AndWord(AddressValue, ShrWord(OnesWord, 128)),
            ShrWord(AddressValue, 128)>>
    /\ Len(finalizer.instance.a_prv) = 4
    /\ ~FitsLimb(state.placements[PRV_IN_PLACEMENT_INDEX].outPts[1].value)
    /\ Len(state.placements[PRV_OUT_PLACEMENT_INDEX].outPts) = 1
\* C28: when a transaction starts, the State Registry it works on is as
\* new: the four buffer placements with empty wire lists and nothing
\* else, the next placement id 4, and empty caches
TransactionHasOwnRegistry ==
    (phase = "FetchOpcode" /\ cur = NoCall) => state = StateManager_new
\* the placements registered by the step
RegisteredByStep ==
    {state'.placements[id] :
        id \in DOMAIN state'.placements \ DOMAIN state.placements}
\* C29: the Synthesizer half of KECCAK256 takes offset and size off the
\* symbolic stack and puts exactly one symbol on it, an auxiliary input
\* holding the hash the EVM half left on the stack, whatever the size
\* is; the placements it registers are those that rebuild the hashed
\* memory, none computes a hash, and no buffer gets a wire
KeccakPushesOneAuxin ==
    [][(/\ phase = "ExecuteSymbolic"
        /\ cur.op = "KECCAK256"
        /\ phase' = "ConsistencyCheck") =>
           (/\ Len(stackPt') = Len(stackPt) - 1
            /\ popRest(stackPt', 1) = popRest(stackPt, 2)
            /\ stackPt'[Len(stackPt')].source = AUXIN
            /\ stackPt'[Len(stackPt')].value = stack[Len(stack)]
            /\ \A p \in RegisteredByStep :
                  p.usage \in {"SHL", "SHR", "AND", "OR", "ADD"}
            /\ OtherBuffersUnchanged({}))]_vars
\* KECCAK256 of 40 bytes of written memory has pushed its symbol
KeccakOfWrittenMemory ==
    /\ phase = "ConsistencyCheck"
    /\ cur.op = "KECCAK256"
    /\ Len(stackPt) = 1
    /\ stackPt[1].source = AUXIN
    /\ stackPt[1].value \in HashValues
    /\ state.placementIndex > INITIAL_PLACEMENT_INDEX
\* the output symbols of a placement outside the buffers name the id the
\* placement is registered under
SourceIsRegisteredId ==
    \A id \in DOMAIN state.placements \ BufferIds :
        \A k \in DOMAIN state.placements[id].outPts :
            state.placements[id].outPts[k].source = id
\* a step that registers one placement moves the counter on by one
OneIdPerPlacement ==
    (Cardinality(DOMAIN state'.placements \ DOMAIN state.placements) = 1)
        => state'.placementIndex = state.placementIndex + 1

\* C30: for every placement outside the buffers the source of each of
\* its output symbols is the id under which the placement is registered,
\* and registering one placement advances the placement counter by
\* exactly one
OutputSourceIsPlacementId ==
    []SourceIsRegisteredId /\ [][OneIdPerPlacement]_vars

\* C31: the symbol an SLOAD pushes has the value the concrete EVM read
\* from the slot in the same step, whatever SLOADs and SSTOREs of the key
\* came before in the transaction
SloadSymbolHasSlotValue ==
    (phase = "ConsistencyCheck" /\ cur.op = "SLOAD")
        => stackPt[Len(stackPt)].value = stack[Len(stack)]

(***************************************************************************)
(* The arithmetic handlers as the opcode reference and the walk-through    *)
(* list them: the Synthesizer handler pops the operand symbols itself and  *)
(* then calls synthesizerArith, which pops ins.length symbols again        *)
(***************************************************************************)
MaxHandlerCodeLen == 5

\* [0x01, async function (runState)]: popN(2), then synthesizerArith('ADD')
ADD_handler(rs) ==
    IF Len(rs.stackPt) < 2 THEN Throw(rs, STACK_UNDERFLOW)
    ELSE synthesizerArith([rs EXCEPT !.stackPt = popRest(@, 2)], "ADD", 2)

\* 0x04 DIV, Synthesizer Behavior: popN(2), then synthesizerArith('DIV')
DIV_handler(rs) ==
    IF Len(rs.stackPt) < 2 THEN Throw(rs, STACK_UNDERFLOW)
    ELSE synthesizerArith([rs EXCEPT !.stackPt = popRest(@, 2)], "DIV", 2)

HandlerADD ==
    /\ phase = "ExecuteSymbolic"
    /\ cur.op = "ADD"
    /\ Commit(ADD_handler(RunState), "ConsistencyCheck")
HandlerDIV ==
    /\ phase = "ExecuteSymbolic"
    /\ cur.op = "DIV"
    /\ Commit(DIV_handler(RunState), "ConsistencyCheck")

HandlerAlphabet == {Push1(5), Push1(10), Op("ADD"), Op("DIV")}
HandlerPrograms ==
    UNION {[1..n -> HandlerAlphabet] : n \in 1..MaxHandlerCodeLen}

InitHandlers ==
    /\ InitCommon
    /\ code \in HandlerPrograms
    /\ storage = << >>

NextHandlers ==
    \/ Run
    \/ FetchOpcode
    \/ ConcretePUSH \/ SymbolicPUSH
    \/ ConcreteADD \/ HandlerADD
    \/ ConcreteDIV \/ HandlerDIV
    \/ ConsistencyCheck

SpecHandlers == InitHandlers /\ [][NextHandlers]_vars

\* the Synthesizer half of a two-operand arithmetic opcode has run to its
\* end
ArithHandlerStep ==
    /\ phase = "ExecuteSymbolic"
    /\ cur.op \in {"ADD", "DIV"}
    /\ phase' = "ConsistencyCheck"
\* two symbols fewer and one more, and as high as the concrete stack
TwoPoppedOnePushed ==
    /\ Len(stackPt') = Len(stackPt) - 2 + 1
    /\ Len(stackPt') = Len(stack')

\* C32: the symbolic handler of a two-operand arithmetic opcode pops
\* exactly two symbols and pushes exactly one, so that after the opcode
\* the symbolic stack is as high as the concrete stack
ArithPopsOperandsPushesOne ==
    [][ArithHandlerStep => TwoPoppedOnePushed]_vars

\* the Synthesizer half of EXP has run to its end
ExpStep ==
    /\ phase = "ExecuteSymbolic"
    /\ cur.op = "EXP"
    /\ phase' = "ConsistencyCheck"
\* the symbol pushed by the step is the first output of the SubEXP placed
\* last and holds the power of the base symbol's value by the exponent
\* symbol's value; with the exponent 0 no SubEXP is placed and the
\* symbol holds 1
ExpResult ==
    LET a == stackPt[Len(stackPt)].value
        e == stackPt[Len(stackPt) - 1].value
        new == DOMAIN state'.placements \ DOMAIN state.placements
        last == CHOOSE x \in new : \A y \in new : y <= x
        top == stackPt'[Len(stackPt')]
    IN IF e = ZeroWord
       THEN /\ top.value = ToWord(1)
            /\ \A id \in new : state'.placements[id].usage # "SubEXP"
       ELSE /\ top.value = PowWord(a, e, BitLength(e) - 1, 0, ToWord(1))
            /\ state'.placements[last].usage = "SubEXP"
            /\ top = state'.placements[last].outPts[1]

MaxCopyWrites == 2
CopySources == {0, 16}
CopyLengths == {16, 48}

\* the flat memory after a copy of length bytes from src to dst: the
\* bytes of the source as they were before the copy
Memory_copy(mem, dst, src, length) ==
    [a \in (DOMAIN mem) \cup (dst..(dst + length - 1)) |->
        IF a >= dst /\ a < dst + length
        THEN IF src + (a - dst) \in DOMAIN mem THEN mem[src + (a - dst)]
             ELSE 0
        ELSE mem[a]]

\* memoryPt.write of the symbol of each window at its place in the
\* destination
RECURSIVE writeChunks(_, _, _, _, _, _)
writeChunks(mp, chunks, chunkDataPts, dst, src, i) ==
    IF i > Len(chunks) THEN mp
    ELSE writeChunks(MemoryPt_write(mp, dst + (chunks[i].offset - src),
                                    chunks[i].size, chunkDataPts[i]),
                     chunks, chunkDataPts, dst, src, i + 1)

\* a variant that writes each window to the destination before the next
\* window of the source is resolved
RECURSIVE copyInterleaved(_, _, _, _, _, _)
copyInterleaved(st, mp, chunks, dst, src, i) ==
    IF i > Len(chunks) THEN [state |-> st, memoryPt |-> mp]
    ELSE The({copyInterleaved(
                  r.state,
                  MemoryPt_write(mp, dst + (chunks[i].offset - src),
                                 chunks[i].size, r.ret),
                  chunks, dst, src, i + 1) :
                r \in {The({placeMemoryToStack(st, dataAliasInfos) :
                               dataAliasInfos \in
                                   {getDataAlias(mp, chunks[i].offset,
                                                 chunks[i].size)}})}})
copyMemoryRegion_Interleaved(st, mp, dst, src, length) ==
    copyInterleaved(st, mp, chunkMemory(src, length), dst, src, 1)

\* MemoryPt copy of a region: every window of the source is resolved
\* first, then the symbols are written
copyMemoryRegion(st, mp, dst, src, length) ==
    The({[state |-> placed.state,
          memoryPt |-> writeChunks(mp, chunkMemory(src, length), placed.ret,
                                   dst, src, 1)] :
           placed \in {placeChunks(st, mp, chunkMemory(src, length),
                                   1, << >>)}})

\* an MSTORE before the copy
MemWriteBeforeCopy(offset, dataPt) ==
    /\ calls = memoryPt.timeStamp
    /\ memoryPt.timeStamp < MaxCopyWrites
    /\ MemWrite(offset, dataPt)

\* MCOPY body for a length above zero
MemCopy(dst, src, length) ==
    /\ calls = memoryPt.timeStamp
    /\ cur.op \in {"none", "write"}
    /\ LET r == copyMemoryRegion(state, memoryPt, dst, src, length)
       IN /\ state' = r.state
          /\ memoryPt' = r.memoryPt
    /\ memory' = Memory_copy(memory, dst, src, length)
    /\ cur' = [op |-> "copy", arg |-> <<dst, src, length>>]
    /\ calls' = calls + 1
    /\ UNCHANGED <<finalizer, code, programCounter, phase, halt, error,
                   stack, stackPt, storage, ret>>

\* an MLOAD after the copy
MemReadAfterCopy(offset) ==
    /\ cur.op = "copy"
    /\ LET r == mloadPt(state, memoryPt, offset)
       IN /\ state' = r.state
          /\ ret' = r.ret
    /\ cur' = [op |-> "readAfterCopy", arg |-> offset, copy |-> cur.arg]
    /\ calls' = calls + 1
    /\ UNCHANGED <<finalizer, code, programCounter, phase, halt, error,
                   stack, stackPt, memory, memoryPt, storage>>

NextCopy ==
    \/ \E offset \in MemOffsets, dataPt \in MemSymbols :
          MemWriteBeforeCopy(offset, dataPt)
    \/ \E dst \in MemOffsets, src \in CopySources, length \in CopyLengths :
          MemCopy(dst, src, length)
    \/ \E offset \in MemOffsets : MemReadAfterCopy(offset)

SpecCopy == InitMem /\ [][NextCopy]_vars

Resolves(placements, pt) ==
    /\ pt.source \in DOMAIN placements
    /\ (pt.wireIndex + 1) \in DOMAIN placements[pt.source].outPts
    /\ placements[pt.source].outPts[pt.wireIndex + 1].value = pt.value
\* the inputs that were one 32-byte wire before the refactoring are two
\* inputs next to each other that refer to two output wires next to each
\* other, the low limb first
LimbsInOrder(orig, new) ==
    \A i \in DOMAIN orig :
        (orig[i].source >= 0 /\ orig[i].sourceSize > LIMB_BYTES) =>
            \E n \in 1..(Len(new) - 1) :
                /\ new[n].source = orig[i].source
                /\ new[n + 1].source = orig[i].source
                /\ new[n + 1].wireIndex = new[n].wireIndex + 1
                /\ new[n].value = AndWord(orig[i].value, ShrWord(OnesWord, 128))
                /\ new[n + 1].value = ShrWord(orig[i].value, 128)

\* C35: after the placement refactor every input wire that refers to a
\* placement resolves to an existing output wire of the placement
\* registered under its source, with the same value, and the consumer of
\* a split wire refers to both limb wires, the low limb first
InputsResolveAfterRefactor ==
    (finalizer.step # "refactor") =>
        LET placements == finalizer.refactored
            diet == removeUnusedLoadWires(state.placements)
        IN \A id \in DOMAIN placements :
              /\ \A n \in DOMAIN placements[id].inPts :
                    (placements[id].inPts[n].source >= 0) =>
                        Resolves(placements, placements[id].inPts[n])
              /\ LimbsInOrder(diet[id].inPts, placements[id].inPts)

\* an opcode that only moves symbols is being executed
StackOnlyOpcode ==
    /\ cur.op \in {"MSTORE", "POP", "DUP", "SWAP", "PUSH"}
    /\ phase \in {"ExecuteConcrete", "ExecuteSymbolic", "ConsistencyCheck"}

BufferWiresPaired ==
    \A id \in BufferIds :
        /\ Len(state.placements[id].inPts) = Len(state.placements[id].outPts)
        /\ (id \in InBufferIds) =>
              \A i \in DOMAIN state.placements[id].outPts :
                  /\ state.placements[id].outPts[i].wireIndex = i - 1
                  /\ state.placements[id].outPts[i].value
                        = state.placements[id].inPts[i].value

\* two values were loaded into PRV_IN and a symbol was stored to an
\* output buffer
BufferWiresPairedWitness ==
    /\ Len(state.placements[PRV_IN_PLACEMENT_INDEX].outPts) = 2
    /\ state.placements[PRV_IN_PLACEMENT_INDEX].outPts[2].wireIndex = 1
    /\ state.placements[PRV_IN_PLACEMENT_INDEX].outPts[1].value
          # state.placements[PRV_IN_PLACEMENT_INDEX].outPts[2].value
    /\ \E id \in BufferIds \ InBufferIds :
          Len(state.placements[id].outPts) = 1

\* the entries that cover the address a, and the latest of them
Covering(mp, a) == {t \in DOMAIN mp.storePt : a \in EntryRange(mp.storePt[t])}
LatestCovering(mp, a) ==
    CHOOSE t \in Covering(mp, a) : \A u \in Covering(mp, a) : u <= t
\* the entries that are the latest on some address of the window
Contributing(mp, offset) ==
    {LatestCovering(mp, a) : a \in {b \in ReadRange(offset) :
                                       Covering(mp, b) # {}}}
\* the infos of a read of the word at offset: one per contributing entry,
\* in the order of the writes; byte i of the result is selected by the
\* masker of the latest entry on its address and by no other masker, and
\* by none when the address was never written
MaskersPartitionWindow(mp, offset) ==
    LET infos == getDataAlias(mp, offset, WORD_BYTES)
        entries == Contributing(mp, offset)
    IN /\ Len(infos) = Cardinality(entries)
       /\ \A k \in DOMAIN infos :
             /\ infos[k].dataPt = mp.storePt[IdAt(entries, k)].dataPt
             /\ infos[k].masker # ZeroWord
             /\ \A i \in WordIdx :
                   infos[k].masker[i] =
                       IF /\ Covering(mp, offset + i - 1) # {}
                          /\ LatestCovering(mp, offset + i - 1)
                                = IdAt(entries, k)
                       THEN 255 ELSE 0
       /\ \A k, l \in DOMAIN infos :
             (k # l) => AndWord(infos[k].masker, infos[l].masker) = ZeroWord

DefaultMaxHeight == 1024
\* a small maximum height, to walk through every order of calls
MaxSmallHeight == 3
\* pop calls in one run
MaxPops == 2
STACK_OVERFLOW == "stack overflow"

StackPt_new(maxHeight) ==
    [_stack |-> << >>, _len |-> 0, _maxHeight |-> maxHeight]

\* a variant that returns the top symbol and leaves the length as it is
StackPt_pop_Peek(sp) ==
    IF sp._len < 1
    THEN [stackPt |-> sp, err |-> STACK_UNDERFLOW, ret |-> NoRet]
    ELSE [stackPt |-> sp, err |-> "", ret |-> sp._stack[sp._len]]

\* pop(): throws below one item; else returns _stack[_len - 1] and lowers
\* _len, the array keeps the item
StackPt_pop(sp) ==
    IF sp._len < 1
    THEN [stackPt |-> sp, err |-> STACK_UNDERFLOW, ret |-> NoRet]
    ELSE [stackPt |-> [sp EXCEPT !._len = @ - 1], err |-> "",
          ret |-> sp._stack[sp._len]]

\* push(dataPt): throws at the maximum height; else writes the item at
\* index _len, over an item a pop has left there, and raises _len
StackPt_push(sp, dataPt) ==
    IF sp._len >= sp._maxHeight
    THEN [stackPt |-> sp, err |-> STACK_OVERFLOW, ret |-> NoRet]
    ELSE [stackPt |->
              [sp EXCEPT !._stack =
                             IF sp._len < Len(sp._stack)
                             THEN [sp._stack EXCEPT ![sp._len + 1] = dataPt]
                             ELSE Append(sp._stack, dataPt),
                         !._len = @ + 1],
          err |-> "", ret |-> NoRet]

\* the symbols pushed on a stack: both symbols on a small stack, one on a
\* stack of the default height
PushSymbols(sp) ==
    IF sp._maxHeight = DefaultMaxHeight
    THEN {loadAuxin(WordX, WORD_BYTES)}
    ELSE MemSymbols

InitStack ==
    /\ programCounter = 1
    /\ phase = "Ready"
    /\ halt = "None"
    /\ error = ""
    /\ stack = << >>
    /\ stackPt \in {StackPt_new(MaxSmallHeight), StackPt_new(DefaultMaxHeight)}
    /\ memory = Memory_new
    /\ memoryPt = MemoryPt_new
    /\ state = StateManager_new
    /\ cur = NoCall
    /\ ret = NoRet
    /\ calls = 0
    /\ finalizer = Finalizer_new
    /\ code = << >>
    /\ storage = << >>

StackPush(dataPt) ==
    /\ LET r == StackPt_push(stackPt, dataPt)
       IN /\ stackPt' = r.stackPt
          /\ error' = r.err
          /\ ret' = r.ret
          /\ stack' = IF r.err = "" THEN Append(stack, dataPt) ELSE stack
    /\ cur' = [op |-> "push", arg |-> stackPt._len]
    /\ UNCHANGED <<finalizer, code, programCounter, phase, halt, memory,
                   memoryPt, storage, state, calls>>

StackPop ==
    /\ calls < MaxPops
    /\ LET r == StackPt_pop(stackPt)
       IN /\ stackPt' = r.stackPt
          /\ error' = r.err
          /\ ret' = r.ret
          /\ stack' = IF r.err = "" THEN SubSeq(stack, 1, Len(stack) - 1)
                      ELSE stack
    /\ cur' = [op |-> "pop", arg |-> stackPt._len]
    /\ calls' = calls + 1
    /\ UNCHANGED <<finalizer, code, programCounter, phase, halt, memory,
                   memoryPt, storage, state>>

\* push called with one of the symbols
StackPushCall == \E dataPt \in PushSymbols(stackPt) : StackPush(dataPt)

NextStack == StackPushCall \/ StackPop

SpecStack == InitStack /\ [][NextStack]_vars

\* a call of pop has been made
StackPopStep == cur'.op = "pop" /\ calls' = calls + 1
\* pop on no symbol: STACK_UNDERFLOW and the same stack; else the symbol
\* pushed last and not popped yet, and a length lower by one
PopOutcome ==
    IF stack = << >>
    THEN /\ error' = STACK_UNDERFLOW
         /\ stackPt' = stackPt
    ELSE /\ error' = ""
         /\ ret' = stack[Len(stack)]
         /\ stackPt'._len = stackPt._len - 1
\* the length of the stack is that of the symbols pushed and not popped,
\* from 0 to the maximum height 1024
HeightInRange ==
    /\ stackPt'._len = Len(stack')
    /\ stackPt'._len >= 0
    /\ stackPt'._len <= DefaultMaxHeight

====
